---- MODULE Spec2Model ----
(***************************************************************************)
(* CarConvo matching and ranking engine (backend/services/car_matcher.py)  *)
(* and the request handlers of backend/app.py that drive it.               *)
(*                                                                         *)
(* Text is a sequence of one-character strings, so that substring tests,   *)
(* case conversion and the price patterns are computed character by        *)
(* character as the code computes them.  Scores are fixed-point numbers:   *)
(* 1/10000 of a point while computed, 1/100 once rounded for the result.   *)
(***************************************************************************)
EXTENDS Integers, Sequences, FiniteSets, TLC

(***************************************************************************)
(* Text helpers: str.lower, str.upper, the "in" substring test, " ".join,  *)
(* str.strip, int().                                                       *)
(***************************************************************************)

UpperCase == <<"A","B","C","D","E","F","G","H","I","J","K","L","M","N","O","P","Q","R","S","T","U","V","W","X","Y","Z">>

LowerCase == <<"a","b","c","d","e","f","g","h","i","j","k","l","m","n","o","p","q","r","s","t","u","v","w","x","y","z">>

DigitChars == <<"0","1","2","3","4","5","6","7","8","9">>

\* None, and the absent value of an optional argument; a present value v is <<v>>
None == <<>>

Min(S) == CHOOSE x \in S : \A y \in S : x <= y

Max(S) == CHOOSE x \in S : \A y \in S : x >= y

LowerChar(c) ==
    IF \E i \in 1..Len(UpperCase) : UpperCase[i] = c
    THEN LowerCase[CHOOSE i \in 1..Len(UpperCase) : UpperCase[i] = c]
    ELSE c

UpperChar(c) ==
    IF \E i \in 1..Len(LowerCase) : LowerCase[i] = c
    THEN UpperCase[CHOOSE i \in 1..Len(LowerCase) : LowerCase[i] = c]
    ELSE c

RECURSIVE lower(_)
\* t.lower()
lower(t) == IF t = <<>> THEN <<>> ELSE <<LowerChar(Head(t))>> \o lower(Tail(t))

RECURSIVE upper(_)
\* t.upper()
upper(t) == IF t = <<>> THEN <<>> ELSE <<UpperChar(Head(t))>> \o upper(Tail(t))

\* w in t
StartsAt(t, i, w) ==
    /\ i >= 1
    /\ i + Len(w) - 1 <= Len(t)
    /\ \A j \in 1..Len(w) : t[i + j - 1] = w[j]

Contains(t, w) == \E i \in 1..(Len(t) - Len(w) + 1) : StartsAt(t, i, w)

\* any(word in t for word in words)
AnyIn(t, words) == \E k \in 1..Len(words) : Contains(t, words[k])

IsSpace(c) == c \in {" ", "\t", "\n", "\r"}

IsDigit(c) == \E i \in 1..Len(DigitChars) : DigitChars[i] = c

DigitVal(c) == (CHOOSE i \in 1..Len(DigitChars) : DigitChars[i] = c) - 1

\* not t.strip()
IsBlank(t) == \A i \in 1..Len(t) : IsSpace(t[i])

RECURSIVE join(_)
\* ' '.join(parts)
join(parts) ==
    IF parts = <<>> THEN <<>>
    ELSE IF Len(parts) = 1 THEN parts[1]
    ELSE parts[1] \o <<" ">> \o join(Tail(parts))

RECURSIVE int(_)
\* int(digits)
int(d) ==
    IF d = <<>> THEN 0
    ELSE int(SubSeq(d, 1, Len(d) - 1)) * 10 + DigitVal(d[Len(d)])

(***************************************************************************)
(* re.search for the three shapes of price pattern.  A match is a record   *)
(* [ok, start, end, groups]; end is exclusive, as in match.end().          *)
(***************************************************************************)
NoMatch == [ok |-> FALSE]

\* \s*: the end of the longest run of white space in t that starts at i
SpaceRunEnd(t, i) ==
    CHOOSE j \in i..(Len(t) + 1) :
        /\ (j = Len(t) + 1 \/ ~IsSpace(t[j]))
        /\ \A k \in i..(j - 1) : IsSpace(t[k])

\* \d*: the end of the longest run of digits in t that starts at i
DigitRunEnd(t, i) ==
    CHOOSE j \in i..(Len(t) + 1) :
        /\ (j = Len(t) + 1 \/ ~IsDigit(t[j]))
        /\ \A k \in i..(j - 1) : IsDigit(t[k])

\* an optional character c at i:  c?
Opt(t, i, c) == IF i <= Len(t) /\ t[i] = c THEN i + 1 ELSE i

\* lit\s*\$?(\d+)k?  anchored at i
PrefixPriceAt(t, i, lit) ==
    LET a == i + Len(lit)
        b == SpaceRunEnd(t, a)
        c == Opt(t, b, "$")
        d == DigitRunEnd(t, c)
        e == Opt(t, d, "k")
    IN  IF StartsAt(t, i, lit) /\ d > c
        THEN [ok |-> TRUE, start |-> i, end |-> e, groups |-> <<SubSeq(t, c, d - 1)>>]
        ELSE NoMatch

\* \$(\d+)k?\s*lit  anchored at i
SuffixPriceAt(t, i, lit) ==
    LET c == i + 1
        d == DigitRunEnd(t, c)
        e == Opt(t, d, "k")
        f == SpaceRunEnd(t, e)
    IN  IF StartsAt(t, i, <<"$">>) /\ d > c /\ StartsAt(t, f, lit)
        THEN [ok |-> TRUE, start |-> i, end |-> f + Len(lit), groups |-> <<SubSeq(t, c, d - 1)>>]
        ELSE NoMatch

\* \$(\d+),?(\d{3})  anchored at i: the greedy \d+ keeps the whole digit run
\* when ",ddd" follows it, and otherwise gives back its last three digits
CommaPriceAt(t, i) ==
    LET c == i + 1
        d == DigitRunEnd(t, c)
    IN  IF ~(StartsAt(t, i, <<"$">>) /\ d > c) THEN NoMatch
        ELSE IF Opt(t, d, ",") = d + 1 /\ DigitRunEnd(t, d + 1) >= d + 4
        THEN [ok |-> TRUE, start |-> i, end |-> d + 4,
              groups |-> <<SubSeq(t, c, d - 1), SubSeq(t, d + 1, d + 3)>>]
        ELSE IF d - c >= 4
        THEN [ok |-> TRUE, start |-> i, end |-> d,
              groups |-> <<SubSeq(t, c, d - 4), SubSeq(t, d - 3, d - 1)>>]
        ELSE NoMatch

price_patterns ==
    << [kind |-> "prefix", lit |-> <<"u","n","d","e","r">>],
       [kind |-> "prefix", lit |-> <<"b","e","l","o","w">>],
       [kind |-> "prefix", lit |-> <<"l","e","s","s"," ","t","h","a","n">>],
       [kind |-> "suffix", lit |-> <<"o","r"," ","l","e","s","s">>],
       [kind |-> "suffix", lit |-> <<"m","a","x">>],
       [kind |-> "prefix", lit |-> <<"b","u","d","g","e","t">>],
       [kind |-> "comma", lit |-> <<>>] >>

PatternAt(p, t, i) ==
    CASE p.kind = "prefix" -> PrefixPriceAt(t, i, p.lit)
      [] p.kind = "suffix" -> SuffixPriceAt(t, i, p.lit)
      [] p.kind = "comma" -> CommaPriceAt(t, i)

\* re.search(pattern, t): the leftmost match
re_search(p, t) ==
    LET hits == {i \in 1..Len(t) : PatternAt(p, t, i).ok}
    IN  IF hits = {} THEN NoMatch ELSE PatternAt(p, t, Min(hits))

\* a price that ignores the k suffix
PriceOfDigits(p, t, m) ==
    IF p.kind = "comma" THEN int(m.groups[1] \o m.groups[2]) ELSE int(m.groups[1])

\* the price a matched pattern yields
PriceOf(p, t, m) ==
    IF p.kind = "comma" THEN int(m.groups[1] \o m.groups[2])
    ELSE IF Contains(lower(SubSeq(t, m.start, m.end - 1)), <<"k">>)
         THEN int(m.groups[1]) * 1000
         ELSE int(m.groups[1])

\* a price loop won by the pattern that matches leftmost in the text
ExtractMaxPriceLeftmost(t, filters) ==
    LET hits == {k \in 1..Len(price_patterns) : re_search(price_patterns[k], t).ok}
        leftmost == Min({re_search(price_patterns[k], t).start : k \in hits})
    IN  IF hits = {} THEN filters
        ELSE LET p == price_patterns[Min({k \in hits : re_search(price_patterns[k], t).start = leftmost})]
             IN  ("max_price" :> PriceOf(p, t, re_search(p, t))) @@ filters

\* the loop over price_patterns: the first pattern that matches sets max_price
ExtractMaxPrice(t, filters) ==
    LET hits == {k \in 1..Len(price_patterns) : re_search(price_patterns[k], t).ok}
    IN  IF hits = {} THEN filters
        ELSE LET p == price_patterns[Min(hits)]
             IN  ("max_price" :> PriceOf(p, t, re_search(p, t))) @@ filters

(***************************************************************************)
(* _parse_conversation_preferences                                         *)
(***************************************************************************)
body_type_keywords ==
    << [body_type |-> <<"s","u","v">>,
        keywords |-> <<<<"s","u","v">>, <<"c","r","o","s","s","o","v","e","r">>, <<"s","u","v","s">>>>],
       [body_type |-> <<"s","e","d","a","n">>,
        keywords |-> <<<<"s","e","d","a","n">>, <<"s","e","d","a","n","s">>>>],
       [body_type |-> <<"t","r","u","c","k">>,
        keywords |-> <<<<"t","r","u","c","k">>, <<"p","i","c","k","u","p">>, <<"t","r","u","c","k","s">>>>],
       [body_type |-> <<"h","a","t","c","h","b","a","c","k">>,
        keywords |-> <<<<"h","a","t","c","h","b","a","c","k">>, <<"h","a","t","c","h">>>>],
       [body_type |-> <<"w","a","g","o","n">>,
        keywords |-> <<<<"w","a","g","o","n">>, <<"e","s","t","a","t","e">>>>],
       [body_type |-> <<"m","i","n","i","v","a","n">>,
        keywords |-> <<<<"m","i","n","i","v","a","n">>, <<"v","a","n">>>>],
       [body_type |-> <<"c","o","u","p","e">>,
        keywords |-> <<<<"c","o","u","p","e">>, <<"s","p","o","r","t","s"," ","c","a","r">>, <<"s","p","o","r","t","s","-","c","a","r">>, <<"s","p","o","r","t","s","c","a","r">>, <<"2","-","d","o","o","r">>, <<"t","w","o"," ","d","o","o","r">>>>],
       [body_type |-> <<"c","o","n","v","e","r","t","i","b","l","e">>,
        keywords |-> <<<<"c","o","n","v","e","r","t","i","b","l","e">>, <<"r","o","a","d","s","t","e","r">>, <<"c","a","b","r","i","o","l","e","t">>>>] >>

\* the keyword rules in the order the code tests them; a rule that matches
\* assigns its boosts and filters over whatever an earlier rule assigned
keyword_rules ==
    << [keywords |-> <<<<"h","y","b","r","i","d">>, <<"p","l","u","g","-","i","n">>, <<"p","h","e","v">>>>,
        lifestyle_boosts |-> "eco_conscious" :> 3,
        filters |-> "fuel_preference" :> <<"h","y","b","r","i","d">>],
       [keywords |-> <<<<"e","l","e","c","t","r","i","c">>, <<"e","v">>, <<"b","a","t","t","e","r","y">>>>,
        lifestyle_boosts |-> "eco_conscious" :> 4 @@ "tech_enthusiast" :> 2,
        filters |-> "fuel_preference" :> <<"e","l","e","c","t","r","i","c">>],
       [keywords |-> <<<<"f","u","e","l"," ","e","f","f","i","c","i","e","n","t">>, <<"g","a","s"," ","m","i","l","e","a","g","e">>, <<"m","p","g">>, <<"e","c","o","n","o","m","i","c","a","l">>>>,
        lifestyle_boosts |-> "eco_conscious" :> 2 @@ "budget_conscious" :> 1,
        filters |-> "min_mpg" :> 30],
       [keywords |-> <<<<"f","a","m","i","l","y">>, <<"k","i","d","s">>, <<"c","h","i","l","d","r","e","n">>, <<"b","a","b","y">>>>,
        lifestyle_boosts |-> "family_friendly" :> 3 @@ "safety_focused" :> 2,
        filters |-> "min_seating" :> 5],
       [keywords |-> <<<<"c","a","r","g","o">>, <<"s","p","a","c","e">>, <<"r","o","o","m">>, <<"s","p","a","c","i","o","u","s">>>>,
        lifestyle_boosts |-> "family_friendly" :> 2,
        filters |-> <<>>],
       [keywords |-> <<<<"f","a","s","t">>, <<"s","p","o","r","t","y">>, <<"p","e","r","f","o","r","m","a","n","c","e">>, <<"q","u","i","c","k">>, <<"s","p","e","e","d">>, <<"h","p">>, <<"h","o","r","s","e","p","o","w","e","r">>, <<"s","p","o","r","t","s"," ","c","a","r">>, <<"s","p","o","r","t"," ","c","a","r">>>>,
        lifestyle_boosts |-> "performance" :> 4,
        filters |-> "min_horsepower" :> 200],
       [keywords |-> <<<<"l","u","x","u","r","y">>, <<"p","r","e","m","i","u","m">>, <<"h","i","g","h","-","e","n","d">>, <<"u","p","s","c","a","l","e">>>>,
        lifestyle_boosts |-> "luxury" :> 3 @@ "tech_enthusiast" :> 1,
        filters |-> <<>>],
       [keywords |-> <<<<"o","f","f","-","r","o","a","d">>, <<"o","f","f","r","o","a","d">>, <<"a","d","v","e","n","t","u","r","e">>, <<"t","r","a","i","l">>, <<"4","x","4">>, <<"a","w","d">>, <<"a","l","l","-","w","h","e","e","l">>>>,
        lifestyle_boosts |-> "adventure" :> 3,
        filters |-> "drivetrain" :> <<"A","W","D">>],
       [keywords |-> <<<<"s","a","f","e">>, <<"s","a","f","e","t","y">>, <<"s","e","c","u","r","e">>, <<"p","r","o","t","e","c","t","i","o","n">>>>,
        lifestyle_boosts |-> "safety_focused" :> 2,
        filters |-> <<>>],
       [keywords |-> <<<<"t","e","c","h">>, <<"t","e","c","h","n","o","l","o","g","y">>, <<"i","n","f","o","t","a","i","n","m","e","n","t">>, <<"s","c","r","e","e","n">>, <<"c","o","n","n","e","c","t","i","v","i","t","y">>>>,
        lifestyle_boosts |-> "tech_enthusiast" :> 2,
        filters |-> <<>>],
       [keywords |-> <<<<"c","o","m","m","u","t","e">>, <<"c","o","m","m","u","t","i","n","g">>, <<"c","i","t","y">>, <<"u","r","b","a","n">>, <<"p","a","r","k","i","n","g">>>>,
        lifestyle_boosts |-> "commuter" :> 2 @@ "city_driving" :> 2,
        filters |-> <<>>] >>

EmptyPrefs == [filters |-> <<>>, lifestyle_boosts |-> <<>>]

\* a conversation turn as the parser sees it: a dict or not, its role, and
\* its content: text, absent/empty, or a non-empty value that is not text
Turn(role, content) == [isdict |-> TRUE, role |-> role, ctype |-> "str", content |-> content]

IsUserTurn(msg) == msg.isdict /\ msg.role = "user"

\* a parser whose lower() never raises
LowerNeverRaises(ctx) == FALSE

\* content.lower() raises for a truthy content that is not a string
LowerRaises(ctx) == \E i \in 1..Len(ctx) : IsUserTurn(ctx[i]) /\ ctx[i].ctype = "other"

\* a collection loop that keeps the turns of every role
RECURSIVE messages_of_any_role(_)
messages_of_any_role(ctx) ==
    IF ctx = <<>> THEN <<>>
    ELSE LET msg == ctx[1]
         IN  IF msg.isdict /\ msg.ctype = "str" /\ msg.content # <<>>
             THEN <<lower(msg.content)>> \o messages_of_any_role(Tail(ctx))
             ELSE messages_of_any_role(Tail(ctx))

RECURSIVE user_messages(_)
user_messages(ctx) ==
    IF ctx = <<>> THEN <<>>
    ELSE LET msg == ctx[1]
         IN  IF IsUserTurn(msg) /\ msg.ctype = "str" /\ msg.content # <<>>
             THEN <<lower(msg.content)>> \o user_messages(Tail(ctx))
             ELSE user_messages(Tail(ctx))

\* a body-type loop without its break: the last category with a keyword wins
DetectBodyTypeNoBreak(t, filters) ==
    LET hits == {k \in 1..Len(body_type_keywords) : AnyIn(t, body_type_keywords[k].keywords)}
    IN  IF hits = {} THEN filters
        ELSE ("body_type" :> upper(body_type_keywords[Max(hits)].body_type)) @@ filters

\* the body-type loop: the first category, in table order, with a keyword in t
DetectBodyType(t, filters) ==
    LET hits == {k \in 1..Len(body_type_keywords) : AnyIn(t, body_type_keywords[k].keywords)}
    IN  IF hits = {} THEN filters
        ELSE ("body_type" :> upper(body_type_keywords[Min(hits)].body_type)) @@ filters

\* keyword rules that keep the larger of two boosts for one dimension
RECURSIVE ApplyRulesMax(_, _, _)
ApplyRulesMax(t, k, prefs) ==
    IF k > Len(keyword_rules) THEN prefs
    ELSE LET r == keyword_rules[k]
             old == prefs.lifestyle_boosts
             new == r.lifestyle_boosts
         IN  ApplyRulesMax(t, k + 1,
                 IF AnyIn(t, r.keywords)
                 THEN [filters |-> r.filters @@ prefs.filters,
                       lifestyle_boosts |->
                           [d \in DOMAIN new \cup DOMAIN old |->
                               IF d \in DOMAIN new /\ d \in DOMAIN old THEN Max({new[d], old[d]})
                               ELSE IF d \in DOMAIN new THEN new[d] ELSE old[d]]]
                 ELSE prefs)

RECURSIVE ApplyRules(_, _, _)
ApplyRules(t, k, prefs) ==
    IF k > Len(keyword_rules) THEN prefs
    ELSE LET r == keyword_rules[k]
         IN  ApplyRules(t, k + 1,
                 IF AnyIn(t, r.keywords)
                 THEN [filters |-> r.filters @@ prefs.filters,
                       lifestyle_boosts |-> r.lifestyle_boosts @@ prefs.lifestyle_boosts]
                 ELSE prefs)

parse_conversation_preferences(conversation_context) ==
    IF conversation_context = <<>> THEN EmptyPrefs
    ELSE IF LowerRaises(conversation_context) THEN EmptyPrefs
    ELSE LET conversation_text == join(user_messages(conversation_context))
         IN  IF IsBlank(conversation_text) THEN EmptyPrefs
             ELSE LET withBody == [filters |-> DetectBodyType(conversation_text, <<>>),
                                   lifestyle_boosts |-> <<>>]
                      withRules == ApplyRules(conversation_text, 1, withBody)
                  IN  [filters |-> ExtractMaxPrice(conversation_text, withRules.filters),
                       lifestyle_boosts |-> withRules.lifestyle_boosts]

(***************************************************************************)
(* Fixed-point arithmetic.  A score is an integer number of 1/10000 of a   *)
(* point while it is computed, and of 1/100 of a point once round(x, 2)    *)
(* has been applied.  Products that exceed the integer range are divided   *)
(* digit by digit, so every quotient is the exact floor.  The code works   *)
(* in binary floating point: its rounding error, around 1e-14 of a point,  *)
(* is far below this resolution, and shows only when a score lies exactly  *)
(* on half a hundredth, where round(x, 2) may go either way.               *)
(***************************************************************************)
Point == 100 * 100

RECURSIVE QuoRem(_, _, _)
\* <<q, r>> with x * y = q * d + r and 0 <= r < d, for x, y >= 0 and d > 0,
\* taking y sixteen at a time
QuoRem(x, y, d) ==
    IF y = 0 THEN <<0, 0>>
    ELSE LET h == QuoRem(x, y \div 16, d)
             t == (16 * h[2]) + ((x % d) * (y % 16))
         IN  <<(16 * h[1]) + ((x \div d) * (y % 16)) + (t \div d), t % d>>

\* floor(x * y / d)
MulDiv(x, y, d) == QuoRem(x, y, d)[1]

\* ceil(x * y / d)
MulDivUp(x, y, d) == LET h == QuoRem(x, y, d) IN IF h[2] = 0 THEN h[1] ELSE h[1] + 1

RECURSIVE NewtonSqrt(_, _, _)
\* floor(sqrt(a * b)) by Newton's iteration from s >= floor(sqrt(a * b))
NewtonSqrt(a, b, s) ==
    LET next == (s + MulDiv(a, b, s)) \div 2
    IN  IF next >= s THEN s ELSE NewtonSqrt(a, b, next)

\* math.sqrt(a) * math.sqrt(b), rounded down, for a, b > 0
SqrtProduct(a, b) == NewtonSqrt(a, b, Max({a, b}))

\* round(x, 2): from 1/10000 of a point to the nearest 1/100
round2(x) == (x + 50) \div 100

RECURSIVE SumOver(_, _)
SumOver(S, f) ==
    IF S = {} THEN 0
    ELSE LET x == CHOOSE y \in S : TRUE IN f[x] + SumOver(S \ {x}, f)

\* d.get(key, default)
get(d, key, default) == IF key \in DOMAIN d THEN d[key] ELSE default

(***************************************************************************)
(* The four scorers                                                        *)
(***************************************************************************)

\* self.dimension_importance, in hundredths (1.2 is 120)
DimensionImportance ==
    [safety_focused |-> 120, budget_conscious |-> 115, eco_conscious |-> 110,
     family_friendly |-> 110, commuter |-> 100, performance |-> 95,
     tech_enthusiast |-> 90, luxury |-> 85, city_driving |-> 100, adventure |-> 90]

\* a similarity that weights the car's vector only
CosineCarWeighted(importance, car_scores, user_profile) ==
    LET dims == DOMAIN user_profile \cap DOMAIN car_scores
        car_val == [d \in dims |-> car_scores[d] * get(importance, d, 100)]
        user_val == [d \in dims |-> user_profile[d] * 100]
        dot_product == SumOver(dims, [d \in dims |-> car_val[d] * user_val[d]])
        car_magnitude == SumOver(dims, [d \in dims |-> car_val[d] * car_val[d]])
        user_magnitude == SumOver(dims, [d \in dims |-> user_val[d] * user_val[d]])
    IN  IF car_magnitude > 0 /\ user_magnitude > 0
        THEN MulDiv(dot_product, 100 * Point, SqrtProduct(car_magnitude, user_magnitude))
        ELSE 0

\* a similarity that answers the neutral 50 for a vector of zero magnitude
CosineNeutralOnZero(importance, car_scores, user_profile) ==
    LET dims == DOMAIN user_profile \cap DOMAIN car_scores
        car_val == [d \in dims |-> car_scores[d] * get(importance, d, 100)]
        user_val == [d \in dims |-> user_profile[d] * get(importance, d, 100)]
        dot_product == SumOver(dims, [d \in dims |-> car_val[d] * user_val[d]])
        car_magnitude == SumOver(dims, [d \in dims |-> car_val[d] * car_val[d]])
        user_magnitude == SumOver(dims, [d \in dims |-> user_val[d] * user_val[d]])
    IN  IF car_magnitude > 0 /\ user_magnitude > 0
        THEN MulDiv(dot_product, 100 * Point, SqrtProduct(car_magnitude, user_magnitude))
        ELSE 50 * Point

calculate_cosine_similarity(importance, car_scores, user_profile) ==
    LET dims == DOMAIN user_profile \cap DOMAIN car_scores
        car_val == [d \in dims |-> car_scores[d] * get(importance, d, 100)]
        user_val == [d \in dims |-> user_profile[d] * get(importance, d, 100)]
        dot_product == SumOver(dims, [d \in dims |-> car_val[d] * user_val[d]])
        car_magnitude == SumOver(dims, [d \in dims |-> car_val[d] * car_val[d]])
        user_magnitude == SumOver(dims, [d \in dims |-> user_val[d] * user_val[d]])
    IN  IF car_magnitude > 0 /\ user_magnitude > 0
        THEN MulDiv(dot_product, 100 * Point, SqrtProduct(car_magnitude, user_magnitude))
        ELSE 0

\* an affinity whose 10-20% piece keeps the slope of the piece before it
BudgetAffinitySameSlope(car_price, user_budget) ==
    IF user_budget <= 0 THEN 85 * Point
    ELSE IF car_price <= user_budget
    THEN 100 * Point - MulDivUp(user_budget - car_price, 5 * Point, user_budget)
    ELSE IF 10 * car_price <= 12 * user_budget
    THEN 100 * Point - MulDivUp(car_price - user_budget, 150 * Point, user_budget)
    ELSE IF 10 * car_price <= 13 * user_budget
    THEN 100 * Point
         - (40 * Point + MulDivUp(10 * car_price - 12 * user_budget, 30 * Point, user_budget))
    ELSE IF 10 * car_price >= 19 * user_budget
    THEN 0
    ELSE Max({0, 30 * Point
                 - MulDivUp(10 * car_price - 13 * user_budget, 5 * Point, user_budget)})

calculate_budget_affinity(car_price, user_budget) ==
    IF user_budget <= 0 THEN 85 * Point
    ELSE IF car_price <= user_budget
    THEN 100 * Point - MulDivUp(user_budget - car_price, 5 * Point, user_budget)
    ELSE IF 10 * car_price <= 11 * user_budget
    THEN 100 * Point - MulDivUp(car_price - user_budget, 150 * Point, user_budget)
    ELSE IF 10 * car_price <= 12 * user_budget
    THEN 100 * Point
         - (15 * Point + MulDivUp(10 * car_price - 11 * user_budget, 25 * Point, user_budget))
    ELSE IF 10 * car_price <= 13 * user_budget
    THEN 100 * Point
         - (40 * Point + MulDivUp(10 * car_price - 12 * user_budget, 30 * Point, user_budget))
    ELSE IF 10 * car_price >= 19 * user_budget
    THEN 0  \* max(0, ...): the penalty has reached 30 at a ratio of 1.9
    ELSE Max({0, 30 * Point
                 - MulDivUp(10 * car_price - 13 * user_budget, 5 * Point, user_budget)})

\* min(100, x) for x in 1/10000 of a point
Cap100(x) == Min({100 * Point, x})

\* a feature score that divides by the number of axes, not by the weights
FeatureScorePlainAverage(car, user_profile) ==
    LET specs == car.specifications
        mpg_weight == get(user_profile, "eco_conscious", 5)
                      + get(user_profile, "budget_conscious", 5)
                      + get(user_profile, "commuter", 5)
        perf_weight == 3 * get(user_profile, "performance", 5)
        family_weight == 3 * get(user_profile, "family_friendly", 5)
        safety_weight == 3 * get(user_profile, "safety_focused", 5)
        tech_weight == 3 * get(user_profile, "tech_enthusiast", 5)
        mpg_score == Cap100((specs.mpg_combined * 100 * Point) \div 50)
        hp_score == Cap100((specs.horsepower * 100 * Point) \div 400)
        space_score == Cap100((specs.seating_capacity * 10 + specs.cargo_space * 2) * Point)
        safety_score == Cap100((Len(car.features.safety) * 100 * Point) \div 10)
        tech_score == Cap100((Len(car.features.technology) * 100 * Point) \div 8)
        score == mpg_score * mpg_weight + hp_score * perf_weight
                 + space_score * family_weight + safety_score * safety_weight
                 + tech_score * tech_weight
    IN  score \div (5 * 30)

calculate_feature_score(car, user_profile) ==
    LET specs == car.specifications
        \* each weight is the profile value / 10; all five are scaled by 30 here
        mpg_weight == get(user_profile, "eco_conscious", 5)
                      + get(user_profile, "budget_conscious", 5)
                      + get(user_profile, "commuter", 5)
        perf_weight == 3 * get(user_profile, "performance", 5)
        family_weight == 3 * get(user_profile, "family_friendly", 5)
        safety_weight == 3 * get(user_profile, "safety_focused", 5)
        tech_weight == 3 * get(user_profile, "tech_enthusiast", 5)
        mpg_score == Cap100((specs.mpg_combined * 100 * Point) \div 50)
        hp_score == Cap100((specs.horsepower * 100 * Point) \div 400)
        space_score == Cap100((specs.seating_capacity * 10 + specs.cargo_space * 2) * Point)
        safety_score == Cap100((Len(car.features.safety) * 100 * Point) \div 10)
        tech_score == Cap100((Len(car.features.technology) * 100 * Point) \div 8)
        score == mpg_score * mpg_weight + hp_score * perf_weight
                 + space_score * family_weight + safety_score * safety_weight
                 + tech_score * tech_weight
        weight_sum == mpg_weight + perf_weight + family_weight + safety_weight + tech_weight
    IN  IF weight_sum > 0 THEN score \div weight_sum ELSE 50 * Point

calculate_value_score(car) ==
    LET price == car.basic_info.msrp
        specs == car.specifications
        costs == car.costs
        total_features == Len(car.features.safety) + Len(car.features.technology)
                          + Len(car.features.comfort) + Len(car.features.entertainment)
        \* total_features / (price / 10000) * 15
        feature_score == Cap100(MulDiv(15 * 10000 * Point, total_features, price))
        \* 100 - ((insurance + maintenance + 15000 / mpg * 3.50) - 2000) / 50
        cost_efficiency ==
            Max({0, 100 * Point
                    - ((costs.insurance_annual_estimate + costs.maintenance_annual_estimate
                        - 2000) * Point) \div 50
                    - MulDivUp(52500, Point, 50 * specs.mpg_combined)})
        \* mpg / (price / 10000) * 20
        mpg_score == Cap100(MulDiv(20 * 10000 * Point, specs.mpg_combined, price))
    IN  (feature_score * 4 + cost_efficiency * 3 + mpg_score * 3) \div 10

(***************************************************************************)
(* Hard filters, reasons, and the ranking itself                           *)
(***************************************************************************)
\* a filter check that has lost its price test
MeetsFiltersButPrice(car, filters) ==
    /\ "body_type" \in DOMAIN filters =>
           upper(car.basic_info.body_type) = upper(filters.body_type)
    /\ "min_mpg" \in DOMAIN filters =>
           ~(car.specifications.mpg_combined < filters.min_mpg)
    /\ "min_horsepower" \in DOMAIN filters =>
           ~(car.specifications.horsepower < filters.min_horsepower)
    /\ "min_seating" \in DOMAIN filters =>
           ~(car.specifications.seating_capacity < filters.min_seating)
    /\ "fuel_preference" \in DOMAIN filters =>
           LET fuel_pref == lower(filters.fuel_preference)
               engine == lower(car.specifications.engine)
           IN  /\ ~(fuel_pref = <<"h","y","b","r","i","d">>
                    /\ ~Contains(engine, <<"h","y","b","r","i","d">>))
               /\ ~(fuel_pref = <<"e","l","e","c","t","r","i","c">>
                    /\ ~Contains(engine, <<"e","l","e","c","t","r","i","c">>)
                    /\ ~Contains(engine, <<"e","v">>))
    /\ "drivetrain" \in DOMAIN filters =>
           Contains(upper(car.specifications.drivetrain), upper(filters.drivetrain))

meets_conversation_filters(car, filters) ==
    /\ "body_type" \in DOMAIN filters =>
           upper(car.basic_info.body_type) = upper(filters.body_type)
    /\ "min_mpg" \in DOMAIN filters =>
           ~(car.specifications.mpg_combined < filters.min_mpg)
    /\ "min_horsepower" \in DOMAIN filters =>
           ~(car.specifications.horsepower < filters.min_horsepower)
    /\ "min_seating" \in DOMAIN filters =>
           ~(car.specifications.seating_capacity < filters.min_seating)
    /\ "fuel_preference" \in DOMAIN filters =>
           LET fuel_pref == lower(filters.fuel_preference)
               engine == lower(car.specifications.engine)
           IN  /\ ~(fuel_pref = <<"h","y","b","r","i","d">>
                    /\ ~Contains(engine, <<"h","y","b","r","i","d">>))
               /\ ~(fuel_pref = <<"e","l","e","c","t","r","i","c">>
                    /\ ~Contains(engine, <<"e","l","e","c","t","r","i","c">>)
                    /\ ~Contains(engine, <<"e","v">>))
    /\ "drivetrain" \in DOMAIN filters =>
           Contains(upper(car.specifications.drivetrain), upper(filters.drivetrain))
    /\ "max_price" \in DOMAIN filters =>
           ~(car.basic_info.msrp > filters.max_price)

RECURSIVE InsertDesc(_, _, _)
\* place index i behind every index whose key is not smaller
InsertDesc(order, i, keys) ==
    IF order = <<>> THEN <<i>>
    ELSE IF keys[order[1]] >= keys[i]
         THEN <<order[1]>> \o InsertDesc(Tail(order), i, keys)
         ELSE <<i>> \o order

RECURSIVE SortedOrder(_, _)
SortedOrder(keys, n) ==
    IF n = 0 THEN <<>> ELSE InsertDesc(SortedOrder(keys, n - 1), n, keys)

\* list.sort(key=..., reverse=True) / sorted(..., reverse=True): descending
\* by key, elements with equal keys in their original order
sort_reverse(s, keys) ==
    LET order == SortedOrder(keys, Len(s)) IN [i \in 1..Len(s) |-> s[order[i]]]

\* s[:n]
SliceTo(s, n) ==
    IF n >= 0 THEN SubSeq(s, 1, Min({n, Len(s)}))
    ELSE SubSeq(s, 1, Max({0, Len(s) + n}))

\* the key order of a profile dict, as PersonalityAnalyzer.analyze builds it
ProfileKeys ==
    <<"family_friendly", "adventure", "eco_conscious", "luxury", "performance",
      "budget_conscious", "city_driving", "commuter", "tech_enthusiast", "safety_focused">>

\* f"Strong {dimension.replace('_', ' ').title()} match"
StrongReason ==
    [family_friendly |-> "Strong Family Friendly match",
     adventure |-> "Strong Adventure match",
     eco_conscious |-> "Strong Eco Conscious match",
     luxury |-> "Strong Luxury match",
     performance |-> "Strong Performance match",
     budget_conscious |-> "Strong Budget Conscious match",
     city_driving |-> "Strong City Driving match",
     commuter |-> "Strong Commuter match",
     tech_enthusiast |-> "Strong Tech Enthusiast match",
     safety_focused |-> "Strong Safety Focused match"]

\* a reasons list cut to its last four entries instead of its first four
MatchReasonsLastFour(car, user_profile) ==
    LET items == SelectSeq(ProfileKeys, LAMBDA d : d \in DOMAIN user_profile)
        top_priorities ==
            SliceTo(sort_reverse(items, [i \in 1..Len(items) |-> user_profile[items[i]]]), 3)
        strong == SelectSeq(top_priorities,
                            LAMBDA d : /\ user_profile[d] >= 7
                                       /\ get(car.lifestyle_scores, d, 5) >= 7)
        price == car.basic_info.msrp
        reasons ==
            [i \in 1..Len(strong) |-> StrongReason[strong[i]]]
            \o (IF price < 30000 THEN <<"Great value">>
                ELSE IF price > 50000 THEN <<"Premium features">> ELSE <<>>)
            \o (IF car.specifications.mpg_combined > 35
                THEN <<"Excellent fuel economy">> ELSE <<>>)
            \o (IF car.specifications.horsepower > 300 THEN <<"High performance">> ELSE <<>>)
            \o (IF Len(car.features.safety) > 5 THEN <<"Advanced safety tech">> ELSE <<>>)
    IN  SubSeq(reasons, Max({1, Len(reasons) - 3}), Len(reasons))

generate_match_reasons(car, user_profile) ==
    LET items == SelectSeq(ProfileKeys, LAMBDA d : d \in DOMAIN user_profile)
        top_priorities ==
            SliceTo(sort_reverse(items, [i \in 1..Len(items) |-> user_profile[items[i]]]), 3)
        strong == SelectSeq(top_priorities,
                            LAMBDA d : /\ user_profile[d] >= 7
                                       /\ get(car.lifestyle_scores, d, 5) >= 7)
        price == car.basic_info.msrp
        reasons ==
            [i \in 1..Len(strong) |-> StrongReason[strong[i]]]
            \o (IF price < 30000 THEN <<"Great value">>
                ELSE IF price > 50000 THEN <<"Premium features">> ELSE <<>>)
            \o (IF car.specifications.mpg_combined > 35
                THEN <<"Excellent fuel economy">> ELSE <<>>)
            \o (IF car.specifications.horsepower > 300 THEN <<"High performance">> ELSE <<>>)
            \o (IF Len(car.features.safety) > 5 THEN <<"Advanced safety tech">> ELSE <<>>)
    IN  SliceTo(reasons, 4)

\* Python truthiness of an optional number: "if budget"
Truthy(opt) == opt # None /\ opt[1] # 0

\* an adjusted profile without the cap at 10
AdjustProfileUncapped(lifestyle_profile, lifestyle_boosts) ==
    [d \in DOMAIN lifestyle_profile |->
        IF d \in DOMAIN lifestyle_boosts
        THEN lifestyle_profile[d] + lifestyle_boosts[d]
        ELSE lifestyle_profile[d]]

\* the adjusted copy of the profile: boosts added, capped at 10
AdjustProfile(lifestyle_profile, lifestyle_boosts) ==
    [d \in DOMAIN lifestyle_profile |->
        IF d \in DOMAIN lifestyle_boosts
        THEN Min({10, lifestyle_profile[d] + lifestyle_boosts[d]})
        ELSE lifestyle_profile[d]]

\* the budget_score expression of find_matches
BudgetScore(msrp, budget) ==
    IF Truthy(budget) THEN calculate_budget_affinity(msrp, budget[1])
    ELSE (85 * Point) \div 100

\* the body of the scoring loop for one car: the car's copy with its scores
ScoreCar(importance, car, adjusted_profile, budget) ==
    LET cosine_score ==
            calculate_cosine_similarity(importance, car.lifestyle_scores, adjusted_profile)
        budget_score == BudgetScore(car.basic_info.msrp, budget)
        feature_score == calculate_feature_score(car, adjusted_profile)
        value_score == calculate_value_score(car)
        composite_score ==
            (cosine_score * 40 + budget_score * 30 + feature_score * 20 + value_score * 10)
            \div 100
    IN  [match_score |-> round2(composite_score),
         score_breakdown |-> [lifestyle_match |-> round2(cosine_score),
                              budget_fit |-> round2(budget_score),
                              feature_quality |-> round2(feature_score),
                              value_score |-> round2(value_score)],
         match_reasons |-> generate_match_reasons(car, adjusted_profile)] @@ car

\* a ranking that sorts ascending and then reverses the list, which turns
\* the order of equal scores around
SortThenReverse(matches) ==
    LET asc == sort_reverse(matches, [i \in 1..Len(matches) |-> 0 - matches[i].match_score])
    IN  [i \in 1..Len(matches) |-> asc[Len(matches) + 1 - i]]

\* matches.sort(key=lambda x: x['match_score'], reverse=True)
SortMatches(matches) ==
    sort_reverse(matches, [i \in 1..Len(matches) |-> matches[i].match_score])

\* a ranking that forgets the slice and returns every match
TopNWhole(matches, top_n) == matches

\* matches[:top_n]
TopN(matches, top_n) == SliceTo(matches, top_n)

RECURSIVE ScoreCars(_, _, _, _, _)
\* the loop over self.cars: a car failing a filter is skipped, the others are
\* scored and appended in catalog order
ScoreCars(catalog, importance, filters, adjusted_profile, budget) ==
    IF catalog = <<>> THEN <<>>
    ELSE LET rest == ScoreCars(Tail(catalog), importance, filters, adjusted_profile, budget)
         IN  IF ~meets_conversation_filters(Head(catalog), filters) THEN rest
             ELSE <<ScoreCar(importance, Head(catalog), adjusted_profile, budget)>> \o rest

find_matches(catalog, importance, lifestyle_profile, budget, conversation_context, top_n) ==
    LET conversation_preferences == parse_conversation_preferences(conversation_context)
        adjusted_profile ==
            AdjustProfile(lifestyle_profile, conversation_preferences.lifestyle_boosts)
        matches == ScoreCars(catalog, importance, conversation_preferences.filters,
                             adjusted_profile, budget)
    IN  TopN(SortMatches(matches), top_n)

(***************************************************************************)
(* The inputs the model draws from: catalog entries as cars.json holds     *)
(* them, quiz profiles, chat messages and budgets.                         *)
(***************************************************************************)
Features(n) == [i \in 1..n |-> i]

\* a catalog entry; image_url and year, which no operation reads or compares, are left out
Car(id, name, body_type, msrp, mpg, hp, seats, cargo, engine, drivetrain, features, scores, costs) ==
    [id |-> id,
     basic_info |-> [make |-> name[1], model |-> name[2], body_type |-> body_type, msrp |-> msrp],
     specifications |-> [mpg_combined |-> mpg, horsepower |-> hp, seating_capacity |-> seats,
                         cargo_space |-> cargo, engine |-> engine, drivetrain |-> drivetrain],
     features |-> [safety |-> Features(features[1]), technology |-> Features(features[2]),
                   comfort |-> Features(features[3]), entertainment |-> Features(features[4])],
     lifestyle_scores |-> scores,
     costs |-> [insurance_annual_estimate |-> costs[1],
                maintenance_annual_estimate |-> costs[2]],
     pros |-> <<"pro of " \o id>>,
     cons |-> <<"con of " \o id>>]

Scores(values) == [d \in {ProfileKeys[i] : i \in 1..Len(ProfileKeys)} |->
                      values[CHOOSE i \in 1..Len(ProfileKeys) : ProfileKeys[i] = d]]

HybridSUV ==
    Car("rav4-hybrid", <<"Toyota", "RAV4 Hybrid">>, <<"S","U","V">>, 33000, 40, 219, 5, 37,
        <<"2",".","5","L"," ","H","y","b","r","i","d">>,
        <<"A","W","D">>,
        <<8, 6, 4, 3>>,
        Scores(<<9, 5, 8, 5, 5, 5, 5, 5, 5, 5>>),
        <<1400, 450>>)

SportsCoupe ==
    Car("mustang-gt", <<"Ford", "Mustang GT">>, <<"C","o","u","p","e">>, 60000, 19, 450, 4, 13,
        <<"5",".","0","L"," ","V","8">>,
        <<"R","W","D">>,
        <<5, 5, 3, 3>>,
        [performance |-> 9, luxury |-> 7, adventure |-> 6],
        <<2200, 900>>)

HybridSUVTwin ==
    Car("rav4-hybrid-xle", <<"Toyota", "RAV4 Hybrid XLE">>, <<"S","U","V">>, 33000, 40, 219, 5, 37,
        <<"2",".","5","L"," ","H","y","b","r","i","d">>,
        <<"A","W","D">>,
        <<8, 6, 4, 3>>,
        Scores(<<9, 5, 8, 5, 5, 5, 5, 5, 5, 5>>),
        <<1400, 450>>)

EVSedan ==
    Car("model-3", <<"Tesla", "Model 3">>, <<"S","e","d","a","n">>, 42000, 100, 283, 5, 23,
        <<"D","u","a","l"," ","M","o","t","o","r"," ","E","V">>,
        <<"A","W","D">>,
        <<9, 8, 5, 4>>,
        Scores(<<6, 6, 10, 6, 8, 6, 6, 6, 9, 6>>),
        <<1800, 300>>)

ElectricHatch ==
    Car("bolt", <<"Chevrolet", "Bolt">>, <<"H","a","t","c","h","b","a","c","k">>, 27000, 100, 200, 5, 17,
        <<"E","l","e","c","t","r","i","c"," ","M","o","t","o","r">>,
        <<"F","W","D">>,
        <<6, 5, 3, 2>>,
        Scores(<<5, 5, 9, 5, 5, 8, 8, 5, 5, 5>>),
        <<1300, 250>>)

IdealVan ==
    Car("ideal-van", <<"Acme", "Ideal Van">>, <<"M","i","n","i","v","a","n">>, 35000, 100, 400, 8, 33,
        <<"P","l","u","g","-","i","n"," ","H","y","b","r","i","d">>,
        <<"A","W","D">>,
        <<10, 8, 4, 4>>,
        Scores(<<8, 8, 8, 8, 8, 8, 8, 8, 8, 8>>),
        <<320, 100>>)

CarPool == <<HybridSUV, SportsCoupe, HybridSUVTwin, EVSedan, ElectricHatch, IdealVan>>

FamilyEcoProfile == Scores(<<9, 5, 8, 5, 5, 5, 5, 5, 5, 5>>)

BalancedProfile == Scores(<<5, 5, 5, 5, 5, 5, 5, 5, 5, 5>>)

SportyProfile == Scores(<<3, 3, 3, 8, 9, 3, 3, 3, 10, 3>>)

Profiles == {FamilyEcoProfile, BalancedProfile, SportyProfile}

KidsMessage ==
    <<"u","n","d","e","r"," ","$","4","0","k"," ","a","n","d"," ","I"," ","n","e","e","d"," ","r","o","o","m"," ","f","o","r"," ","m","y"," ","k","i","d","s">>

ElectricMessage ==
    <<"S","h","o","w"," ","m","e"," ","a","n"," ","e","l","e","c","t","r","i","c"," ","s","e","d","a","n"," ","o","r"," ","h","a","t","c","h","b","a","c","k">>

HybridSuvMessage ==
    <<"I"," ","w","a","n","t"," ","a"," ","h","y","b","r","i","d"," ","S","U","V"," ","w","i","t","h"," ","g","o","o","d"," ","m","p","g">>

FastAwdMessage ==
    <<"s","o","m","e","t","h","i","n","g"," ","f","a","s","t"," ","w","i","t","h"," ","A","W","D",","," ","b","u","d","g","e","t"," ","6","5","k">>

ThanksMessage ==
    <<"T","h","a","n","k","s","!">>

AssistantReply ==
    <<"T","h","e"," ","e","l","e","c","t","r","i","c"," ","t","r","u","c","k"," ","i","s"," ","f","a","s","t"," ","a","n","d"," ","s","a","f","e">>
Messages == {KidsMessage, ElectricMessage, HybridSuvMessage, FastAwdMessage, ThanksMessage}

\* conversation histories handed to find_matches: none, one user turn, and a
\* longer one with an assistant turn between two user turns
Histories ==
    {<<>>}
    \cup {<<Turn("user", m)>> : m \in Messages}
    \cup {<<Turn("user", KidsMessage), Turn("assistant", AssistantReply),
            Turn("user", ElectricMessage)>>}

\* budgets of a request: absent, zero, negative, and two amounts
Budgets == {None, <<0>>, <<-5000>>, <<35000>>, <<30000>>}

TopNs == {0, 2, 4}

\* the longest catalog the model loads
MaxCars == 3

\* the catalogs _load_cars may return: none (the file is missing) or a run of
\* up to MaxCars consecutive entries of the pool
Catalogs ==
    {<<>>} \cup {SubSeq(CarPool, i, j) : i \in 1..Len(CarPool), j \in 1..Len(CarPool)}

LoadableCatalogs == {c \in Catalogs : Len(c) <= MaxCars}

\* ids a client may ask for: every id of the pool and one that no catalog has
CarIds == {CarPool[i].id : i \in 1..Len(CarPool)} \cup {"no-such-car"}

\* id lists handed to compare_cars: up to three ids, repeats allowed
CompareIds == {"rav4-hybrid", "mustang-gt", "rav4-hybrid-xle", "no-such-car"}

IdLists ==
    {<<>>} \cup {<<a>> : a \in CompareIds} \cup {<<a, b>> : a, b \in CompareIds}
    \cup {<<a, b, c>> : a, b, c \in CompareIds}

(***************************************************************************)
(* compare_cars, get_car_by_id and the estimate handler                    *)
(***************************************************************************)
\* a lookup that falls back to the first car of the catalog
GetCarOrFirst(catalog, car_id) ==
    IF \E i \in 1..Len(catalog) : catalog[i].id = car_id
    THEN catalog[Min({i \in 1..Len(catalog) : catalog[i].id = car_id})]
    ELSE IF catalog # <<>> THEN catalog[1] ELSE None

get_car_by_id(catalog, car_id) ==
    IF \E i \in 1..Len(catalog) : catalog[i].id = car_id
    THEN catalog[Min({i \in 1..Len(catalog) : catalog[i].id = car_id})]
    ELSE None

CarName(car) == car.basic_info.make \o " " \o car.basic_info.model

compare_cars(catalog, car_ids) ==
    LET found == SelectSeq(car_ids, LAMBDA id : get_car_by_id(catalog, id) # None)
        car(i) == get_car_by_id(catalog, found[i])
    IN  [cars |-> [i \in 1..Len(found) |->
                      [id |-> found[i], name |-> CarName(car(i)),
                       price |-> car(i).basic_info.msrp, specs |-> car(i).specifications,
                       pros |-> car(i).pros, cons |-> car(i).cons,
                       features |-> car(i).features]],
         categories |->
            [price |-> [i \in 1..Len(found) |->
                           [car |-> CarName(car(i)), value |-> car(i).basic_info.msrp]],
             fuel_efficiency |-> [i \in 1..Len(found) |->
                           [car |-> CarName(car(i)),
                            value |-> car(i).specifications.mpg_combined]],
             performance |-> [i \in 1..Len(found) |->
                           [car |-> CarName(car(i)),
                            value |-> car(i).specifications.horsepower]],
             safety |-> <<>>,
             space |-> <<>>]]

\* the status of POST /api/cars/<car_id>/estimate: 500 when the body is not a
\* JSON object or the payment formula divides by zero, 404 when the car is unknown
EstimateStatus(catalog, car_id, body, loan_term) ==
    IF body # "object" THEN 500
    ELSE IF get_car_by_id(catalog, car_id) = None THEN 404
    ELSE IF loan_term = 0 THEN 500
    ELSE 200

(***************************************************************************)
(* The engine as a state machine: the CarMatcher object and the calls made *)
(* on it, one at a time.  ret is the value a call has returned and its     *)
(* caller has not yet taken; first and between are history variables that  *)
(* remember an earlier call.                                               *)
(***************************************************************************)
\* filter_by_criteria: each criterion that is given (truthy) narrows the list
filter_by_criteria(catalog, body_type, min_mpg, max_price, min_seating) ==
    LET byBody == IF body_type # <<>>
                  THEN SelectSeq(catalog, LAMBDA c :
                           lower(c.basic_info.body_type) = lower(body_type))
                  ELSE catalog
        byMpg == IF Truthy(min_mpg)
                 THEN SelectSeq(byBody, LAMBDA c : c.specifications.mpg_combined >= min_mpg[1])
                 ELSE byBody
        byPrice == IF Truthy(max_price)
                   THEN SelectSeq(byMpg, LAMBDA c : c.basic_info.msrp <= max_price[1])
                   ELSE byMpg
    IN  IF Truthy(min_seating)
        THEN SelectSeq(byPrice, LAMBDA c :
                 c.specifications.seating_capacity >= min_seating[1])
        ELSE byPrice

VARIABLES cars, dimension_importance, ret, first, between, conversation_sessions, requests

vars == <<cars, dimension_importance, ret, first, between, conversation_sessions, requests>>

Init ==
    /\ cars \in LoadableCatalogs
    /\ dimension_importance = DimensionImportance
    /\ ret = None
    /\ first = None
    /\ between = FALSE
    /\ conversation_sessions = <<>>
    /\ requests = <<>>

\* a find_matches that drops the filtered-out cars from self.cars
FindMatchesInPlace(p, b, h, n) ==
    /\ LET conversation_preferences == parse_conversation_preferences(h)
       IN  ret' = [op |-> "find_matches", lifestyle_profile |-> p, budget |-> b,
                   conversation_context |-> h, top_n |-> n,
                   preferences |-> conversation_preferences,
                   adjusted_profile |->
                       AdjustProfile(p, conversation_preferences.lifestyle_boosts),
                   result |-> find_matches(cars, dimension_importance, p, b, h, n)]
    /\ cars' = SelectSeq(cars, LAMBDA car :
                    meets_conversation_filters(car, parse_conversation_preferences(h).filters))
    /\ UNCHANGED <<dimension_importance, conversation_sessions, requests>>

\* a find_matches that writes the scores into the catalog entries themselves
FindMatchesNoCopy(p, b, h, n) ==
    /\ LET conversation_preferences == parse_conversation_preferences(h)
           adjusted_profile == AdjustProfile(p, conversation_preferences.lifestyle_boosts)
       IN  /\ ret' = [op |-> "find_matches", lifestyle_profile |-> p, budget |-> b,
                      conversation_context |-> h, top_n |-> n,
                      preferences |-> conversation_preferences,
                      adjusted_profile |-> adjusted_profile,
                      result |-> find_matches(cars, dimension_importance, p, b, h, n)]
           /\ cars' = [i \in 1..Len(cars) |->
                          IF meets_conversation_filters(cars[i], conversation_preferences.filters)
                          THEN ScoreCar(dimension_importance, cars[i], adjusted_profile, b)
                          ELSE cars[i]]
    /\ UNCHANGED <<dimension_importance, conversation_sessions, requests>>

\* the call returns result; preferences and adjusted_profile are its locals
\* conversation_preferences and adjusted_profile, kept to be observed
FindMatchesCall(p, b, h, n) ==
    /\ LET conversation_preferences == parse_conversation_preferences(h)
       IN  ret' = [op |-> "find_matches", lifestyle_profile |-> p, budget |-> b,
                   conversation_context |-> h, top_n |-> n,
                   preferences |-> conversation_preferences,
                   adjusted_profile |->
                       AdjustProfile(p, conversation_preferences.lifestyle_boosts),
                   result |-> find_matches(cars, dimension_importance, p, b, h, n)]
    /\ UNCHANGED <<cars, dimension_importance, conversation_sessions, requests>>

CompareCarsCall(ids) ==
    /\ ret' = [op |-> "compare_cars", car_ids |-> ids, result |-> compare_cars(cars, ids)]
    /\ UNCHANGED <<cars, dimension_importance, conversation_sessions, requests>>

GetCarByIdCall(id) ==
    /\ ret' = [op |-> "get_car_by_id", car_id |-> id, result |-> get_car_by_id(cars, id)]
    /\ UNCHANGED <<cars, dimension_importance, conversation_sessions, requests>>

FilterByCriteriaCall(body_type, min_mpg, max_price, min_seating) ==
    /\ ret' = [op |-> "filter_by_criteria", body_type |-> body_type, min_mpg |-> min_mpg,
               max_price |-> max_price, min_seating |-> min_seating,
               result |-> filter_by_criteria(cars, body_type, min_mpg, max_price, min_seating)]
    /\ UNCHANGED <<cars, dimension_importance, conversation_sessions, requests>>

GetCostEstimateCall(id, body, loan_term) ==
    /\ ret' = [op |-> "get_cost_estimate", car_id |-> id, body |-> body,
               loan_term |-> loan_term,
               status |-> EstimateStatus(cars, id, body, loan_term)]
    /\ UNCHANGED <<cars, dimension_importance, conversation_sessions, requests>>

FindMatches ==
    /\ ret = None
    /\ \E p \in Profiles, b \in Budgets, h \in Histories, n \in TopNs :
           FindMatchesCall(p, b, h, n)
    /\ UNCHANGED <<first, between>>

CompareCars ==
    /\ ret = None
    /\ \E ids \in IdLists : CompareCarsCall(ids)
    /\ UNCHANGED <<first, between>>

GetCarById ==
    /\ ret = None
    /\ \E id \in CarIds : GetCarByIdCall(id)
    /\ UNCHANGED <<first, between>>

GetCostEstimate ==
    /\ ret = None
    /\ \E id \in CarIds, body \in {"object", "invalid"}, loan_term \in {0, 60} :
           GetCostEstimateCall(id, body, loan_term)
    /\ UNCHANGED <<first, between>>

FilterByCriteria ==
    /\ ret = None
    /\ \E body_type \in {None, <<"s","u","v">>}, min_mpg \in {None, <<0>>, <<35>>},
          max_price \in {None, <<35000>>}, min_seating \in {None, <<5>>} :
           FilterByCriteriaCall(body_type, min_mpg, max_price, min_seating)
    /\ UNCHANGED <<first, between>>

\* the caller takes the returned value; the matcher is free for the next call
Return ==
    /\ ret # None
    /\ ret' = None
    /\ UNCHANGED <<cars, dimension_importance, conversation_sessions, requests, first, between>>

Next ==
    FindMatches \/ CompareCars \/ GetCarById \/ FilterByCriteria \/ GetCostEstimate \/ Return

Spec == Init /\ [][Next]_vars

(***************************************************************************)
(* Properties of the ranking, the lookups and the preference extraction,   *)
(* stated over the value a call has just returned.  Scores in ret are in   *)
(* hundredths of a point: 8500 is 85.00.                                   *)
(***************************************************************************)
FindMatchesReturned == ret # None /\ ret.op = "find_matches"

\* the position in self.cars of the returned candidate r
CatalogIndex(r) == CHOOSE k \in 1..Len(cars) : cars[k].id = r.id

InCatalog(id) == \E k \in 1..Len(cars) : cars[k].id = id

\* C1: for every top_n >= 0, find_matches returns a list of at most top_n cars
C1_AtMostTopN ==
    (FindMatchesReturned /\ ret.top_n >= 0) => Len(ret.result) <= ret.top_n

\* three cars were scored, none filtered out, and the slice kept two of them
C1_Truncated ==
    /\ FindMatchesReturned
    /\ ret.top_n = 2
    /\ Len(cars) = 3
    /\ ret.preferences.filters = <<>>
    /\ Len(ret.result) = 2

\* the filters other than the fuel preference, as C2 lists them
OtherFiltersHold(car, filters) ==
    /\ "body_type" \in DOMAIN filters =>
           upper(car.basic_info.body_type) = upper(filters.body_type)
    /\ "min_mpg" \in DOMAIN filters => car.specifications.mpg_combined >= filters.min_mpg
    /\ "min_horsepower" \in DOMAIN filters =>
           car.specifications.horsepower >= filters.min_horsepower
    /\ "min_seating" \in DOMAIN filters =>
           car.specifications.seating_capacity >= filters.min_seating
    /\ "drivetrain" \in DOMAIN filters =>
           Contains(upper(car.specifications.drivetrain), upper(filters.drivetrain))
    /\ "max_price" \in DOMAIN filters => car.basic_info.msrp <= filters.max_price

\* an unknown key added to the filters changes the verdict on no car of the catalog
UnknownKeysIgnored(filters) ==
    \A k \in 1..Len(cars) :
        meets_conversation_filters(cars[k], ("colour" :> <<"r","e","d">>) @@ filters)
            = meets_conversation_filters(cars[k], filters)

\* C2 as stated: every returned car satisfies every extracted filter, the
\* engine containing the fuel preference (case ignored)
C2_EngineContainsFuel ==
    FindMatchesReturned =>
        \A i \in 1..Len(ret.result) :
            /\ OtherFiltersHold(ret.result[i], ret.preferences.filters)
            /\ "fuel_preference" \in DOMAIN ret.preferences.filters =>
                   Contains(lower(ret.result[i].specifications.engine),
                            lower(ret.preferences.filters.fuel_preference))

\* C2, amended: every returned car satisfies every extracted filter, where a
\* fuel preference of hybrid asks for "hybrid" in the engine and one of
\* electric for "electric" or "ev" in it (case ignored throughout); unknown
\* filter keys reject nothing
C2_FiltersHold ==
    FindMatchesReturned =>
        /\ \A i \in 1..Len(ret.result) :
            LET filters == ret.preferences.filters
                engine == lower(ret.result[i].specifications.engine)
            IN  /\ OtherFiltersHold(ret.result[i], filters)
                /\ "fuel_preference" \in DOMAIN filters =>
                       /\ filters.fuel_preference = <<"h","y","b","r","i","d">> =>
                              Contains(engine, <<"h","y","b","r","i","d">>)
                       /\ filters.fuel_preference = <<"e","l","e","c","t","r","i","c">> =>
                              \/ Contains(engine, <<"e","l","e","c","t","r","i","c">>)
                              \/ Contains(engine, <<"e","v">>)
        /\ UnknownKeysIgnored(ret.preferences.filters)

\* an electric preference was extracted, a car was rejected by it, and a car
\* whose engine holds "ev" but not "electric" was returned
C2_EvReturned ==
    /\ FindMatchesReturned
    /\ "fuel_preference" \in DOMAIN ret.preferences.filters
    /\ ret.preferences.filters.fuel_preference = <<"e","l","e","c","t","r","i","c">>
    /\ Len(ret.result) < Len(cars)
    /\ \E i \in 1..Len(ret.result) :
           ~Contains(lower(ret.result[i].specifications.engine),
                     <<"e","l","e","c","t","r","i","c">>)

\* C3: the returned list is in descending order of match_score, and cars
\* with equal match_score are in catalog order
C3_SortedStable ==
    FindMatchesReturned =>
        \A i, j \in 1..Len(ret.result) :
            i < j =>
                /\ ret.result[i].match_score >= ret.result[j].match_score
                /\ ret.result[i].match_score = ret.result[j].match_score =>
                       CatalogIndex(ret.result[i]) < CatalogIndex(ret.result[j])

\* two returned cars tie, and a car was moved ahead of one before it in the catalog
C3_TieAndReorder ==
    /\ FindMatchesReturned
    /\ \E i, j \in 1..Len(ret.result) :
           i < j /\ ret.result[i].match_score = ret.result[j].match_score
    /\ \E i, j \in 1..Len(ret.result) :
           i < j /\ CatalogIndex(ret.result[i]) > CatalogIndex(ret.result[j])

\* C4 as stated: with the budget absent, zero or negative, every returned
\* car's budget_fit is exactly 85
C4_NoBudgetScores85 ==
    (FindMatchesReturned /\ (ret.budget = None \/ ret.budget[1] <= 0)) =>
        \A i \in 1..Len(ret.result) : ret.result[i].score_breakdown.budget_fit = 8500

\* C5 as stated: every returned car's match_score is within [0, 100]
C5_ScoreInRange ==
    FindMatchesReturned =>
        \A i \in 1..Len(ret.result) :
            ret.result[i].match_score >= 0 /\ ret.result[i].match_score <= 10000

\* C9: compare_cars returns one entry per input id found in the catalog, in
\* input order, and none for the others; get_car_by_id returns None for an
\* unknown id, and the estimate endpoint answers 404 for it
C9_UnknownIdsOmitted ==
    /\ (ret # None /\ ret.op = "compare_cars") =>
           LET existing == SelectSeq(ret.car_ids, InCatalog)
           IN  /\ Len(ret.result.cars) = Len(existing)
               /\ \A i \in 1..Len(existing) : ret.result.cars[i].id = existing[i]
    /\ (ret # None /\ ret.op = "get_car_by_id" /\ ~InCatalog(ret.car_id)) =>
           ret.result = None
    /\ (ret # None /\ ret.op = "get_cost_estimate" /\ ~InCatalog(ret.car_id)
            /\ ret.body = "object") =>
           ret.status = 404

\* three ids were compared, one of them unknown, and two entries came back
C9_TwoOfThree ==
    /\ ret # None
    /\ ret.op = "compare_cars"
    /\ Len(ret.car_ids) = 3
    /\ \E i \in 1..3 : ~InCatalog(ret.car_ids[i])
    /\ Len(ret.result.cars) = 2

\* C10: the single user turn "under $40k and I need room for my kids" yields
\* exactly the filters max_price 40000 and min_seating 5, and positive
\* boosts for family_friendly and safety_focused
C10_KidsScenario ==
    (FindMatchesReturned /\ ret.conversation_context = <<Turn("user", KidsMessage)>>) =>
        /\ ret.preferences.filters = [max_price |-> 40000, min_seating |-> 5]
        /\ "family_friendly" \in DOMAIN ret.preferences.lifestyle_boosts
        /\ ret.preferences.lifestyle_boosts.family_friendly > 0
        /\ "safety_focused" \in DOMAIN ret.preferences.lifestyle_boosts
        /\ ret.preferences.lifestyle_boosts.safety_focused > 0

\* the scenario's turn was the whole history of a call that returned a car
C10_KidsAsked ==
    /\ FindMatchesReturned
    /\ ret.conversation_context = <<Turn("user", KidsMessage)>>
    /\ Len(ret.result) > 0
    /\ Len(ret.result) < Len(cars)

(***************************************************************************)
(* Repeated calls.  A first find_matches call is remembered in first;      *)
(* other calls follow (between records that one did); the first call is    *)
(* then made again with the same arguments.                                *)
(***************************************************************************)
RepeatProfiles == {FamilyEcoProfile}

RepeatBudgets == {None, <<35000>>}

RepeatHistories == {<<>>, <<Turn("user", KidsMessage)>>, <<Turn("user", ElectricMessage)>>}

RepeatTopNs == {2, 4}

\* the catalogs of full length
FullCatalogs == {c \in LoadableCatalogs : Len(c) = MaxCars}

InitRepeat ==
    /\ cars \in FullCatalogs
    /\ dimension_importance = DimensionImportance
    /\ ret = None
    /\ first = None
    /\ between = FALSE
    /\ conversation_sessions = <<>>
    /\ requests = <<>>

FirstCall ==
    /\ ret = None
    /\ first = None
    /\ \E p \in RepeatProfiles, b \in RepeatBudgets, h \in RepeatHistories, n \in RepeatTopNs :
           FindMatchesCall(p, b, h, n)
    /\ first' = ret'
    /\ UNCHANGED between

OtherFindMatches ==
    /\ ret = None
    /\ first # None
    /\ \E p \in RepeatProfiles, b \in RepeatBudgets, h \in RepeatHistories, n \in RepeatTopNs :
           FindMatchesCall(p, b, h, n)
    /\ between' = TRUE
    /\ UNCHANGED first

OtherCompareCars ==
    /\ ret = None
    /\ first # None
    /\ \E a, b \in CompareIds : CompareCarsCall(<<a, b>>)
    /\ between' = TRUE
    /\ UNCHANGED first

OtherGetCarById ==
    /\ ret = None
    /\ first # None
    /\ \E id \in CompareIds : GetCarByIdCall(id)
    /\ between' = TRUE
    /\ UNCHANGED first

RepeatCall ==
    /\ ret = None
    /\ first # None
    /\ FindMatchesCall(first.lifestyle_profile, first.budget,
                       first.conversation_context, first.top_n)
    /\ UNCHANGED <<first, between>>

NextRepeat ==
    FirstCall \/ OtherFindMatches \/ OtherCompareCars \/ OtherGetCarById \/ RepeatCall
    \/ Return

SpecRepeat == InitRepeat /\ [][NextRepeat]_vars

\* the call that has just returned had the arguments of the first call
SameArguments ==
    /\ first # None
    /\ FindMatchesReturned
    /\ ret.lifestyle_profile = first.lifestyle_profile
    /\ ret.budget = first.budget
    /\ ret.conversation_context = first.conversation_context
    /\ ret.top_n = first.top_n

\* C6: a find_matches call with the arguments of an earlier one returns the
\* same list (cars, order, scores, breakdowns, reasons) and extracts the
\* same filters and boosts, whatever calls ran in between
C6_SameOutput ==
    SameArguments => (ret.result = first.result /\ ret.preferences = first.preferences)

\* other calls ran in between, and the repeated call extracted filters,
\* rejected a car and returned one
C6_RepeatedAfterOthers ==
    /\ SameArguments
    /\ between
    /\ ret.preferences.filters # <<>>
    /\ Len(ret.result) > 0
    /\ Len(ret.result) < Len(cars)

(***************************************************************************)
(* _calculate_budget_affinity on its own: prices are tried one after the   *)
(* other against one budget; first is the evaluation before the last.      *)
(***************************************************************************)
\* prices run up to MaxPriceSteps thousand dollars
MaxPriceSteps == 30

\* every thousand dollars, and one dollar above it
AffinityPrices == {1000 * k + d : k \in 1..MaxPriceSteps, d \in {0, 1}}

AffinityBudgets == {10000, 20000}

InitAffinity ==
    /\ cars = <<>>
    /\ dimension_importance = DimensionImportance
    /\ ret = None
    /\ first = None
    /\ between = FALSE
    /\ conversation_sessions = <<>>
    /\ requests = <<>>

CalculateBudgetAffinity ==
    /\ \E car_price \in AffinityPrices, user_budget \in AffinityBudgets :
           /\ ret # None => user_budget = ret.user_budget
           /\ ret' = [op |-> "calculate_budget_affinity", car_price |-> car_price,
                      user_budget |-> user_budget,
                      result |-> calculate_budget_affinity(car_price, user_budget)]
    /\ first' = ret
    /\ UNCHANGED <<cars, dimension_importance, conversation_sessions, requests, between>>

SpecAffinity == InitAffinity /\ [][CalculateBudgetAffinity]_vars

\* C7: for a positive budget the affinity does not increase with the price
\* from ratio 1 on; it is 100, 85, 60 and 30 at the ratios 1.0, 1.10, 1.20
\* and 1.30, and a dollar past each of these it has dropped by no more than
\* the steepest slope allows (the pieces meet); it is below 30 past ratio
\* 1.30 and never below 0.  Affinities are in 1/10000 of a point.
C7_AffinityCurve ==
    (ret # None /\ ret.user_budget > 0) =>
        LET P == ret.car_price
            B == ret.user_budget
        IN  /\ (first # None /\ first.car_price >= B /\ P >= first.car_price) =>
                   ret.result <= first.result
            /\ P = B => ret.result = 100 * Point
            /\ 10 * P = 11 * B => ret.result = 85 * Point
            /\ 10 * P = 12 * B => ret.result = 60 * Point
            /\ 10 * P = 13 * B => ret.result = 30 * Point
            /\ (first # None /\ first.car_price >= B /\ P = first.car_price + 1) =>
                   first.result - ret.result <= (300 * Point) \div B + 1
            /\ 10 * P > 13 * B => ret.result < 30 * Point
            /\ ret.result >= 0

\* the price at ratio 1.30 scored 30, and the price a dollar above it less
C7_PastLastBreakpoint ==
    /\ ret # None
    /\ first # None
    /\ 10 * first.car_price = 13 * ret.user_budget
    /\ first.result = 30 * Point
    /\ ret.car_price = first.car_price + 1
    /\ ret.result < first.result

(***************************************************************************)
(* _calculate_cosine_similarity on its own, under several importance       *)
(* tables (in hundredths; a dimension a table lacks weighs 1.0).           *)
(***************************************************************************)
ImportanceTables ==
    {DimensionImportance,
     [d \in DOMAIN DimensionImportance |-> 100],
     [d \in DOMAIN DimensionImportance |-> IF d = "safety_focused" THEN 300 ELSE 50],
     [family_friendly |-> 200]}

\* a profile equal to the coupe's three scores where the coupe has a score
CoupeLikeProfile == [FamilyEcoProfile EXCEPT !.performance = 9, !.luxury = 7, !.adventure = 6]

\* a profile with a single non-zero dimension, and one with none
SparseProfile == [d \in DOMAIN FamilyEcoProfile |-> IF d = "family_friendly" THEN 9 ELSE 0]

ZeroProfile == [d \in DOMAIN FamilyEcoProfile |-> 0]

\* a profile that shares no dimension with the coupe's three scores
FamilyOnlyProfile == [family_friendly |-> 9, eco_conscious |-> 8]

ScoreVectors ==
    {CarPool[i].lifestyle_scores : i \in 1..Len(CarPool)} \cup {SparseProfile, ZeroProfile}

ProfileVectors ==
    Profiles \cup {CoupeLikeProfile, SparseProfile, ZeroProfile, FamilyOnlyProfile}
    \cup {CarPool[i].lifestyle_scores : i \in 1..Len(CarPool)}

InitCosine ==
    /\ cars = <<>>
    /\ dimension_importance \in ImportanceTables
    /\ ret = None
    /\ first = None
    /\ between = FALSE
    /\ conversation_sessions = <<>>
    /\ requests = <<>>

CalculateCosineSimilarity ==
    /\ \E car_scores \in ScoreVectors, user_profile \in ProfileVectors :
           ret' = [op |-> "calculate_cosine_similarity", car_scores |-> car_scores,
                   user_profile |-> user_profile,
                   result |-> calculate_cosine_similarity(dimension_importance,
                                                          car_scores, user_profile)]
    /\ UNCHANGED <<cars, dimension_importance, conversation_sessions, requests, first, between>>

SpecCosine == InitCosine /\ [][CalculateCosineSimilarity]_vars

\* the dimensions the profile and the car both have
Overlap == DOMAIN ret.user_profile \cap DOMAIN ret.car_scores

\* C8: when the profile and the car agree on every dimension both have, and
\* not all of these values are zero, the similarity is 100 under every
\* importance table (in 1/10000 of a point)
C8_IdenticalIs100 ==
    (/\ ret # None
     /\ \A d \in Overlap : ret.car_scores[d] = ret.user_profile[d]
     /\ \E d \in Overlap : ret.car_scores[d] # 0)
        => ret.result = 100 * Point

\* under unequal weights, a car with three scores met a profile of ten
\* dimensions that agrees with it on those three
C8_PartialOverlap ==
    /\ ret # None
    /\ dimension_importance = DimensionImportance
    /\ Overlap # DOMAIN ret.user_profile
    /\ \A d \in Overlap : ret.car_scores[d] = ret.user_profile[d]
    /\ \E d, e \in Overlap : ret.car_scores[d] # ret.car_scores[e]
    /\ ret.result = 100 * Point

(***************************************************************************)
(* Conversation turns for the preference parser                            *)
(***************************************************************************)
TruckSuvMessage ==
    <<"a"," ","t","r","u","c","k"," ","o","r"," ","m","a","y","b","e"," ","a","n"," ","s","u","v">>

FamilySpaceMessage ==
    <<"f","a","m","i","l","y"," ","c","a","r"," ","w","i","t","h"," ","l","o","t","s"," ","o","f"," ","s","p","a","c","e">>

HybridElectricMessage ==
    <<"h","y","b","r","i","d"," ","o","r"," ","e","l","e","c","t","r","i","c">>

ElectricEfficientMessage ==
    <<"e","l","e","c","t","r","i","c"," ","a","n","d"," ","f","u","e","l"," ","e","f","f","i","c","i","e","n","t">>

BudgetUnderMessage ==
    <<"b","u","d","g","e","t"," ","6","5","k"," ","b","u","t"," ","u","n","d","e","r"," ","$","5","0","k">>

CommaMessage ==
    <<"$","3","0",",","0","0","0">>

UnderCommaMessage ==
    <<"u","n","d","e","r"," ","$","4","0",",","0","0","0">>

BelowCommaMessage ==
    <<"b","e","l","o","w"," ","$","4","0",",","0","0","0">>

BudgetCommaMessage ==
    <<"b","u","d","g","e","t"," ","$","4","0",",","0","0","0">>

ShoutedKidsMessage ==
    <<"U","N","D","E","R"," ","$","4","0","K"," ","A","N","D"," ","I"," ","N","E","E","D"," ","R","O","O","M"," ","F","O","R"," ","M","Y"," ","K","I","D","S">>
\* turns the user-message loop skips or fails on: an item that is no dict, a
\* dict without a role, without content, with empty content, and with a
\* non-empty content that is not text
NotADict == [isdict |-> FALSE, role |-> "", ctype |-> "absent", content |-> <<>>]

NoRole(content) == [isdict |-> TRUE, role |-> "", ctype |-> "str", content |-> content]

NoContent(role) == [isdict |-> TRUE, role |-> role, ctype |-> "absent", content |-> <<>>]

EmptyContent(role) == [isdict |-> TRUE, role |-> role, ctype |-> "str", content |-> <<>>]

NonText(role) == [isdict |-> TRUE, role |-> role, ctype |-> "other", content |-> <<>>]

ParseMessages ==
    {TruckSuvMessage, FamilySpaceMessage, HybridElectricMessage, ElectricEfficientMessage,
     BudgetUnderMessage, CommaMessage, UnderCommaMessage, BelowCommaMessage,
     BudgetCommaMessage, ShoutedKidsMessage, KidsMessage, ThanksMessage}

AssistantHistories ==
    { <<Turn("user", KidsMessage), Turn("assistant", AssistantReply)>>,
      <<Turn("assistant", AssistantReply), Turn("user", KidsMessage)>>,
      <<Turn("user", KidsMessage), Turn("assistant", TruckSuvMessage)>>,
      <<Turn("assistant", AssistantReply)>> }

MalformedHistories ==
    { <<Turn("user", KidsMessage), NotADict>>,
      <<Turn("user", KidsMessage), NoRole(TruckSuvMessage)>>,
      <<NoContent("user"), Turn("user", KidsMessage)>>,
      <<Turn("user", KidsMessage), EmptyContent("user")>>,
      <<Turn("user", KidsMessage), NonText("assistant")>>,
      <<Turn("user", KidsMessage), NonText("user")>>,
      <<NonText("user"), Turn("user", KidsMessage)>> }

ParseHistories ==
    {<<>>} \cup {<<Turn("user", m)>> : m \in ParseMessages}
    \cup { <<Turn("user", TruckSuvMessage), Turn("user", ElectricMessage)>> }
    \cup AssistantHistories \cup MalformedHistories

(***************************************************************************)
(* SpecParse: _parse_conversation_preferences applied to one history and   *)
(* then to another, so that two extractions can be compared.  first keeps  *)
(* the earlier extraction.                                                 *)
(***************************************************************************)
InitParse ==
    /\ cars = CarPool
    /\ dimension_importance = DimensionImportance
    /\ ret = None
    /\ first = None
    /\ between = FALSE
    /\ conversation_sessions = <<>>
    /\ requests = <<>>

ParseCall(h) ==
    /\ ret' = [op |-> "parse", conversation_context |-> h,
               result |-> parse_conversation_preferences(h)]
    /\ UNCHANGED <<cars, dimension_importance, conversation_sessions, requests>>

ParsePreferences ==
    /\ first = None
    /\ \E h \in ParseHistories : ParseCall(h)
    /\ first' = ret'
    /\ UNCHANGED between

ParseAgain ==
    /\ first # None
    /\ between = FALSE
    /\ \E h \in ParseHistories : ParseCall(h)
    /\ between' = TRUE
    /\ UNCHANGED first

NextParse == ParsePreferences \/ ParseAgain

SpecParse == InitParse /\ [][NextParse]_vars

Parsed == ret # None /\ ret.op = "parse"

\* the text the parser searches: the lower-cased user turns joined by spaces
UserText(ctx) == join(user_messages(ctx))

Word(k) == body_type_keywords[k].body_type

\* C11: at most one body_type filter is set: the categories are tested in the
\* order SUV, sedan, truck, hatchback, wagon, minivan, coupe, convertible and
\* the first one with an alias in the user text wins, wherever in the
\* conversation it was mentioned; no alias, no body_type filter
C11_FirstCategoryWins ==
    /\ Len(body_type_keywords) = 8
    /\ Word(1) = <<"s","u","v">>
    /\ Word(2) = <<"s","e","d","a","n">>
    /\ Word(3) = <<"t","r","u","c","k">>
    /\ Word(4) = <<"h","a","t","c","h","b","a","c","k">>
    /\ Word(5) = <<"w","a","g","o","n">>
    /\ Word(6) = <<"m","i","n","i","v","a","n">>
    /\ Word(7) = <<"c","o","u","p","e">>
    /\ Word(8) = <<"c","o","n","v","e","r","t","i","b","l","e">>
    /\ (Parsed /\ ~LowerRaises(ret.conversation_context)) =>
          LET t == UserText(ret.conversation_context)
              named == {k \in 1..8 : AnyIn(t, body_type_keywords[k].keywords)}
              filters == ret.result.filters
          IN  IF named = {} THEN "body_type" \notin DOMAIN filters
              ELSE /\ "body_type" \in DOMAIN filters
                   /\ filters["body_type"] = upper(Word(Min(named)))

\* a truck is named before an SUV, and later turns name a sedan: SUV is set
C11_TruckNamedFirst ==
    /\ Parsed
    /\ ret.conversation_context \in
           { <<Turn("user", TruckSuvMessage)>>,
             <<Turn("user", TruckSuvMessage), Turn("user", ElectricMessage)>> }
    /\ ret.result.filters["body_type"] = <<"S","U","V">>

\* the keyword rules that match the user text of the parsed history
MatchingRules ==
    LET t == UserText(ret.conversation_context)
    IN  {k \in 1..Len(keyword_rules) : AnyIn(t, keyword_rules[k].keywords)}

\* the value the last rule of matching that assigns key gives it, in the
\* order the rules are evaluated; None when no rule of matching assigns it
LastAssigned(matching, field, key) ==
    LET touching == {k \in matching : key \in DOMAIN keyword_rules[k][field]}
    IN  IF touching = {} THEN None ELSE <<keyword_rules[Max(touching)][field][key]>>

RuleKeys(field) == UNION {DOMAIN keyword_rules[k][field] : k \in 1..Len(keyword_rules)}

\* C12: when several matching keyword rules assign the same lifestyle
\* dimension or filter key, the value is the one of the last such rule in
\* evaluation order, never a sum or a maximum: family and space words give
\* family_friendly 2, hybrid and electric give fuel_preference electric,
\* electric and fuel-efficiency words give eco_conscious 2
C12_LastRuleWins ==
    (Parsed /\ ~LowerRaises(ret.conversation_context)) =>
        LET boosts == ret.result.lifestyle_boosts
            filters == ret.result.filters
            matching == MatchingRules
        IN  /\ \A d \in RuleKeys("lifestyle_boosts") :
                   IF LastAssigned(matching, "lifestyle_boosts", d) = None THEN d \notin DOMAIN boosts
                   ELSE d \in DOMAIN boosts /\ <<boosts[d]>> = LastAssigned(matching, "lifestyle_boosts", d)
            /\ \A f \in RuleKeys("filters") :
                   IF LastAssigned(matching, "filters", f) = None THEN f \notin DOMAIN filters
                   ELSE f \in DOMAIN filters /\ <<filters[f]>> = LastAssigned(matching, "filters", f)
            /\ DOMAIN boosts \subseteq RuleKeys("lifestyle_boosts")
            /\ {4, 5} \subseteq matching => boosts["family_friendly"] = 2
            /\ {1, 2} \subseteq matching =>
                   filters["fuel_preference"] = <<"e","l","e","c","t","r","i","c">>
            /\ {2, 3} \subseteq matching => boosts["eco_conscious"] = 2

\* the three overlaps have been parsed: family with space, hybrid with
\* electric, electric with fuel efficiency
C12_OverlappingRules ==
    /\ Parsed /\ first # None /\ first.op = "parse"
    /\ first.conversation_context = <<Turn("user", FamilySpaceMessage)>>
    /\ first.result.lifestyle_boosts["family_friendly"] = 2
    /\ ret.conversation_context \in
           {<<Turn("user", HybridElectricMessage)>>, <<Turn("user", ElectricEfficientMessage)>>}
    /\ 2 \in MatchingRules
    /\ ret.result.lifestyle_boosts["eco_conscious"] \in {2, 4}

\* the price patterns that match somewhere in t
MatchingPatterns(t) == {k \in 1..Len(price_patterns) : re_search(price_patterns[k], t).ok}

\* C13: max_price comes from the first pattern, in the list order under,
\* below, less than, $N or less, $N max, budget, $N,NNN, that matches
\* anywhere in the user text, even when a later-listed pattern matches
\* earlier in the text; the captured number is multiplied by 1000 exactly
\* when the matched span contains a k; no pattern matches, no max_price
C13_FirstListedPattern ==
    /\ [k \in 1..Len(price_patterns) |-> price_patterns[k].lit] =
           << <<"u","n","d","e","r">>, <<"b","e","l","o","w">>,
              <<"l","e","s","s"," ","t","h","a","n">>, <<"o","r"," ","l","e","s","s">>,
              <<"m","a","x">>, <<"b","u","d","g","e","t">>, <<>> >>
    /\ price_patterns[7].kind = "comma"
    /\ (Parsed /\ ~LowerRaises(ret.conversation_context)) =>
          LET t == UserText(ret.conversation_context)
              hits == MatchingPatterns(t)
              filters == ret.result.filters
          IN  IF hits = {} THEN "max_price" \notin DOMAIN filters
              ELSE LET p == price_patterns[Min(hits)]
                       match == re_search(p, t)
                       span == SubSeq(t, match.start, match.end - 1)
                       captured == IF p.kind = "comma"
                                   THEN int(match.groups[1] \o match.groups[2])
                                   ELSE int(match.groups[1])
                   IN  /\ "max_price" \in DOMAIN filters
                       /\ filters["max_price"] =
                              IF \E i \in 1..Len(span) : span[i] = "k"
                              THEN captured * 1000 ELSE captured

\* "budget 65k but under $50k": the budget pattern matches earlier in the
\* text, the under pattern is listed earlier and sets 50000; before that a
\* text without any price left max_price unset
C13_LaterPatternEarlierInText ==
    /\ Parsed /\ first # None /\ first.op = "parse"
    /\ first.conversation_context = <<Turn("user", ThanksMessage)>>
    /\ "max_price" \notin DOMAIN first.result.filters
    /\ ret.conversation_context = <<Turn("user", BudgetUnderMessage)>>
    /\ LET t == UserText(ret.conversation_context)
       IN  re_search(price_patterns[6], t).start < re_search(price_patterns[1], t).start
    /\ ret.result.filters["max_price"] = 50000

\* C14: a user turn that states a comma-grouped dollar amount such as
\* "$30,000", bare or after a budget word ("under $40,000", "below $40,000",
\* "budget $40,000"), gives max_price the full amount: the thousands group
\* and the three-digit group concatenated (30000, 40000)
C14_CommaAmountInFull ==
    (Parsed /\ ~LowerRaises(ret.conversation_context)) =>
        LET t == UserText(ret.conversation_context)
            amount == re_search(price_patterns[7], t)
        IN  amount.ok =>
                /\ "max_price" \in DOMAIN ret.result.filters
                /\ ret.result.filters["max_price"] = int(amount.groups[1] \o amount.groups[2])

\* the turns of role user of a history, in order, with their text lower-cased
UserTurnsLowered(ctx) ==
    LET turns == SelectSeq(ctx, IsUserTurn)
    IN  [i \in 1..Len(turns) |-> [turns[i] EXCEPT !.content = lower(@)]]

BothParsed == Parsed /\ first # None /\ first.op = "parse"

\* C15: only turns of role user influence the extracted preferences: two
\* histories that differ only in assistant turns (added, removed, changed)
\* and in the letter case of the user text give the same filters and
\* lifestyle_boosts
C15_OnlyUserTurnsCount ==
    (BothParsed /\ UserTurnsLowered(ret.conversation_context)
                       = UserTurnsLowered(first.conversation_context)) =>
        /\ ret.result.filters = first.result.filters
        /\ ret.result.lifestyle_boosts = first.result.lifestyle_boosts

\* the upper-cased request alone, then the same request in lower case
\* followed by an assistant reply full of keywords: the same preferences
C15_ShoutedThenAnswered ==
    /\ BothParsed
    /\ first.conversation_context = <<Turn("user", ShoutedKidsMessage)>>
    /\ ret.conversation_context = <<Turn("user", KidsMessage), Turn("assistant", AssistantReply)>>
    /\ ret.result = first.result
    /\ ret.result.filters["max_price"] = 40000
    /\ "body_type" \notin DOMAIN ret.result.filters

\* ctx without its i-th turn
RemoveAt(ctx, i) == SubSeq(ctx, 1, i - 1) \o SubSeq(ctx, i + 1, Len(ctx))

\* a turn that is no mapping, has no role, has no or empty content, or has
\* content that is not text
Malformed(msg) ==
    \/ ~msg.isdict
    \/ msg.role = ""
    \/ msg.ctype # "str"
    \/ msg.content = <<>>

\* a turn of role user whose content is a non-empty value that is not text
UserNonText(msg) == IsUserTurn(msg) /\ msg.ctype = "other"

\* C16: a malformed turn (no mapping, missing role, missing or empty content,
\* content that is not text) is skipped: the preferences are those of the
\* history with that turn removed, so well-formed user turns still contribute
C16_MalformedTurnSkipped ==
    BothParsed =>
        \A i \in 1..Len(first.conversation_context) :
            (/\ Malformed(first.conversation_context[i])
             /\ ret.conversation_context = RemoveAt(first.conversation_context, i))
            => ret.result = first.result

\* C16 (amended): a malformed turn is skipped as above unless it is a turn of
\* role user with non-empty content that is not text; such a turn makes the
\* extraction return empty filters and lifestyle_boosts for the whole history
C16_SkippedUnlessUserNonText ==
    /\ BothParsed =>
           \A i \in 1..Len(first.conversation_context) :
               (/\ Malformed(first.conversation_context[i])
                /\ ~UserNonText(first.conversation_context[i])
                /\ ret.conversation_context = RemoveAt(first.conversation_context, i))
               => ret.result = first.result
    /\ Parsed =>
           ((\E i \in 1..Len(ret.conversation_context) : UserNonText(ret.conversation_context[i]))
            => ret.result = EmptyPrefs)

\* a user turn without content before the request, then the request alone:
\* the same non-empty preferences
C16_EmptyTurnRemoved ==
    /\ BothParsed
    /\ first.conversation_context = <<NoContent("user"), Turn("user", KidsMessage)>>
    /\ ret.conversation_context = <<Turn("user", KidsMessage)>>
    /\ ret.result = first.result
    /\ ret.result.filters["max_price"] = 40000

(***************************************************************************)
(* SpecBoost: find_matches on profiles near the cap and on a profile that  *)
(* lacks a dimension, with histories that boost those dimensions.          *)
(***************************************************************************)
\* a profile without the family_friendly dimension
PartialProfile ==
    [d \in DOMAIN FamilyEcoProfile \ {"family_friendly"} |->
        IF d = "safety_focused" THEN 9 ELSE 5]

BoostProfiles == {FamilyEcoProfile, SportyProfile, BalancedProfile, PartialProfile}

BoostHistories ==
    { <<>>,
      <<Turn("user", KidsMessage)>>,
      <<Turn("user", ElectricMessage)>>,
      <<Turn("user", HybridSuvMessage)>>,
      <<Turn("user", FastAwdMessage)>>,
      <<Turn("user", FamilySpaceMessage)>>,
      <<Turn("user", KidsMessage), Turn("assistant", AssistantReply),
        Turn("user", ElectricMessage)>> }

InitBoost ==
    /\ cars \in FullCatalogs
    /\ dimension_importance = DimensionImportance
    /\ ret = None
    /\ first = None
    /\ between = FALSE
    /\ conversation_sessions = <<>>
    /\ requests = <<>>

FindMatchesBoosted ==
    /\ ret = None
    /\ \E p \in BoostProfiles, h \in BoostHistories : FindMatchesCall(p, <<35000>>, h, 4)
    /\ UNCHANGED <<first, between>>

NextBoost == FindMatchesBoosted \/ Return

SpecBoost == InitBoost /\ [][NextBoost]_vars

\* C17: the adjusted profile find_matches scores with is the supplied profile
\* except that each dimension d with an extracted boost b has the value
\* min(10, profile[d] + b); dimensions without a boost are unchanged, a boost
\* for a dimension the profile lacks adds no dimension, and no adjusted value
\* exceeds 10 when the supplied profile is within 1..10
C17_AdjustedProfile ==
    FindMatchesReturned =>
        LET profile == ret.lifestyle_profile
            boosts == ret.preferences.lifestyle_boosts
            adjusted == ret.adjusted_profile
        IN  /\ DOMAIN adjusted = DOMAIN profile
            /\ \A d \in DOMAIN profile :
                   adjusted[d] = IF d \in DOMAIN boosts
                                 THEN (IF profile[d] + boosts[d] > 10 THEN 10
                                       ELSE profile[d] + boosts[d])
                                 ELSE profile[d]
            /\ (\A d \in DOMAIN profile : profile[d] \in 1..10)
                   => \A d \in DOMAIN adjusted : adjusted[d] \in 1..10
            /\ \A i \in 1..Len(ret.result) :
                   LET car == ret.result[i]
                   IN  /\ car.score_breakdown.lifestyle_match =
                              round2(calculate_cosine_similarity(dimension_importance,
                                         car.lifestyle_scores, adjusted))
                       /\ car.score_breakdown.feature_quality =
                              round2(calculate_feature_score(car, adjusted))

\* the kids request on the profile without family_friendly: safety_focused
\* goes from 9 to the cap 10, family_friendly is boosted but stays absent,
\* and cars were scored
C17_CappedAndAbsent ==
    /\ FindMatchesReturned
    /\ ret.lifestyle_profile = PartialProfile
    /\ ret.conversation_context = <<Turn("user", KidsMessage)>>
    /\ ret.preferences.lifestyle_boosts["family_friendly"] = 2
    /\ ret.preferences.lifestyle_boosts["safety_focused"] = 2
    /\ "family_friendly" \notin DOMAIN ret.adjusted_profile
    /\ ret.adjusted_profile["safety_focused"] = 10
    /\ ret.result # <<>>

(***************************************************************************)
(* The catalog and the importance table under the calls of Spec            *)
(***************************************************************************)
\* C19: no find_matches, compare_cars, get_car_by_id or filter_by_criteria
\* call changes the catalog (its order, any field of any car) or the
\* dimension-importance table; scores, breakdowns and reasons are written
\* to per-call copies only
C19_CatalogUnchanged ==
    [][cars' = cars /\ dimension_importance' = dimension_importance]_vars

\* a ranking has returned scored cars and the catalog entries they were
\* copied from carry no score, breakdown or reasons
C19_ScoredCopies ==
    /\ FindMatchesReturned
    /\ ret.result # <<>>
    /\ \A i \in 1..Len(ret.result) :
           /\ {"match_score", "score_breakdown", "match_reasons"} \subseteq DOMAIN ret.result[i]
           /\ \E j \in 1..Len(cars) :
                  /\ cars[j].id = ret.result[i].id
                  /\ DOMAIN cars[j] = DOMAIN ret.result[i]
                                        \ {"match_score", "score_breakdown", "match_reasons"}
                  /\ \A f \in DOMAIN cars[j] : cars[j][f] = ret.result[i][f]

(***************************************************************************)
(* SpecSessions: the session store of app.py and the chat handler, taken   *)
(* in the steps of its ranking call: the handler appends the user turn     *)
(* and enters find_matches (ChatBegin), find_matches scores one car of     *)
(* the catalog per step (ScoreStep), then sorts and slices, the reply is   *)
(* generated and the handler ends (ChatFinish).  Requests of different     *)
(* sessions interleave freely; a session has one request in flight at a    *)
(* time.  A chat request for an unknown session returns 400 and changes    *)
(* nothing.                                                                *)
(***************************************************************************)
\* the keys of the sessions, in the order of their creation
SessionIds == {1, 2}

\* chat requests begun, over all sessions
MaxChats == 2

SessionProfiles == {BalancedProfile, FamilyEcoProfile}

ChatMessages == {KidsMessage, FastAwdMessage}

ChatBudgets == {<<35000>>}

InitSessions ==
    /\ cars = SliceTo(CarPool, MaxCars)
    /\ dimension_importance = DimensionImportance
    /\ ret = None
    /\ first = None
    /\ between = FALSE
    /\ conversation_sessions = <<>>
    /\ requests = <<>>

\* analyze_personality: a new session, keyed by the time of its creation
AnalyzePersonality ==
    /\ Len(conversation_sessions) + 1 \in SessionIds
    /\ \E lifestyle_profile \in SessionProfiles :
           conversation_sessions' =
               Append(conversation_sessions,
                      [lifestyle_profile |-> lifestyle_profile,
                       conversation_history |-> <<>>,
                       recommended_cars |-> <<>>])
    /\ requests' = Append(requests, None)
    /\ UNCHANGED <<cars, dimension_importance, ret, first, between>>

RECURSIVE ChatsBegun(_)
ChatsBegun(sessions) ==
    IF sessions = <<>> THEN 0
    ELSE Len(SelectSeq(Head(sessions).conversation_history, IsUserTurn))
         + ChatsBegun(Tail(sessions))

InFlight(s) == requests[s] # None /\ requests[s].pc = "scoring"

Done(s) == requests[s] # None /\ requests[s].pc = "done"

\* a profile dict that find_matches adjusted in place instead of copying
CallerProfileAliased(lifestyle_profile, lifestyle_boosts) ==
    AdjustProfile(lifestyle_profile, lifestyle_boosts)

\* the dict the caller passed as lifestyle_profile, after find_matches has
\* built adjusted_profile from a copy of it
CallerProfile(lifestyle_profile, lifestyle_boosts) == lifestyle_profile

\* chat, up to the scoring loop of find_matches
ChatBegin(s, user_message, budget) ==
    LET session == conversation_sessions[s]
        conversation_history ==
            Append(session.conversation_history, Turn("user", user_message))
        conversation_preferences == parse_conversation_preferences(conversation_history)
    IN  /\ ~InFlight(s)
        /\ ChatsBegun(conversation_sessions) < MaxChats
        /\ conversation_sessions' =
               [conversation_sessions EXCEPT ![s] =
                   [session EXCEPT
                       !.conversation_history = conversation_history,
                       !.lifestyle_profile =
                           CallerProfile(session.lifestyle_profile,
                                         conversation_preferences.lifestyle_boosts)]]
        /\ requests' =
               [requests EXCEPT ![s] =
                   [pc |-> "scoring", budget |-> budget,
                    conversation_context |-> conversation_history,
                    conversation_preferences |-> conversation_preferences,
                    adjusted_profile |->
                        AdjustProfile(session.lifestyle_profile,
                                      conversation_preferences.lifestyle_boosts),
                    position |-> 1, matches |-> <<>>]]
        /\ UNCHANGED <<cars, dimension_importance, ret, first, between>>

\* the scoring loop with its matches list kept on the matcher object, so
\* that every call in flight appends to the same list
ScoreStepSharedMatches(s) ==
    LET request == requests[s]
        car == cars[request.position]
        scored == IF meets_conversation_filters(car, request.conversation_preferences.filters)
                  THEN <<ScoreCar(dimension_importance, car, request.adjusted_profile,
                                  request.budget)>>
                  ELSE <<>>
    IN  /\ request.position <= Len(cars)
        /\ requests' =
               [t \in DOMAIN requests |->
                   IF t = s
                   THEN [request EXCEPT !.matches = @ \o scored, !.position = @ + 1]
                   ELSE IF InFlight(t)
                        THEN [requests[t] EXCEPT !.matches = @ \o scored]
                        ELSE requests[t]]
        /\ UNCHANGED <<cars, dimension_importance, conversation_sessions, ret, first, between>>

\* one pass of the loop "for car in self.cars" of find_matches
ScoreStep(s) ==
    LET request == requests[s]
        car == cars[request.position]
    IN  /\ request.position <= Len(cars)
        /\ requests' =
               [requests EXCEPT ![s] =
                   [request EXCEPT
                       !.matches =
                           IF meets_conversation_filters(
                                  car, request.conversation_preferences.filters)
                           THEN Append(@, ScoreCar(dimension_importance, car,
                                                   request.adjusted_profile, request.budget))
                           ELSE @,
                       !.position = @ + 1]]
        /\ UNCHANGED <<cars, dimension_importance, conversation_sessions, ret, first, between>>

\* the end of find_matches (sort, slice) and of the handler: with a reply
\* the assistant turn and the recommended cars are stored and 200 returned;
\* without the language-model service the handler fails with 500
ChatFinish(s, ai_response) ==
    LET request == requests[s]
        session == conversation_sessions[s]
        matched_cars == TopN(SortMatches(request.matches), 4)
    IN  /\ request.position > Len(cars)
        /\ requests' =
               [requests EXCEPT ![s] =
                   [pc |-> "done", budget |-> request.budget,
                    conversation_context |-> request.conversation_context,
                    conversation_preferences |-> request.conversation_preferences,
                    adjusted_profile |-> request.adjusted_profile,
                    status |-> IF ai_response = None THEN 500 ELSE 200,
                    matched_cars |-> matched_cars]]
        /\ conversation_sessions' =
               IF ai_response = None THEN conversation_sessions
               ELSE [conversation_sessions EXCEPT ![s] =
                        [session EXCEPT
                            !.conversation_history =
                                Append(@, Turn("assistant", ai_response)),
                            !.recommended_cars = matched_cars]]
        /\ UNCHANGED <<cars, dimension_importance, ret, first, between>>

Chat ==
    \E s \in 1..Len(conversation_sessions) :
        \/ \E user_message \in ChatMessages, budget \in ChatBudgets :
               ChatBegin(s, user_message, budget)
        \/ InFlight(s) /\ ScoreStep(s)
        \/ InFlight(s) /\ \E ai_response \in {None, AssistantReply} : ChatFinish(s, ai_response)

NextSessions == AnalyzePersonality \/ Chat

SpecSessions == InitSessions /\ [][NextSessions]_vars

\* the value a base profile value takes under a boost
Boosted(value, boost) == IF value + boost > 10 THEN 10 ELSE value + boost

\* C18: whatever chat requests run on a session, its stored lifestyle_profile
\* stays the profile produced at session creation: find_matches does not
\* write to the profile it is given, so every call applies the boosts to the
\* base profile once and nothing accumulates across turns
C18_ProfileKept ==
    /\ [][\A s \in 1..Len(conversation_sessions) :
              conversation_sessions'[s].lifestyle_profile
                  = conversation_sessions[s].lifestyle_profile]_vars
    /\ [](\A s \in 1..Len(conversation_sessions) :
              requests[s] # None =>
                  LET base == conversation_sessions[s].lifestyle_profile
                      boosts == requests[s].conversation_preferences.lifestyle_boosts
                  IN  \A d \in DOMAIN base :
                          requests[s].adjusted_profile[d] =
                              IF d \in DOMAIN boosts THEN Boosted(base[d], boosts[d])
                              ELSE base[d])

\* a session created with family_friendly 5 has answered the same request
\* twice, which boosts family_friendly by 2: the second ranking used 7, and the
\* session still stores 5
C18_SecondTurnSameBoost ==
    /\ Len(conversation_sessions) >= 1
    /\ Done(1)
    /\ conversation_sessions[1].lifestyle_profile = BalancedProfile
    /\ Len(conversation_sessions[1].conversation_history) = 4
    /\ requests[1].conversation_context =
           << Turn("user", KidsMessage), Turn("assistant", AssistantReply),
              Turn("user", KidsMessage) >>
    /\ requests[1].conversation_preferences.lifestyle_boosts["family_friendly"] = 2
    /\ requests[1].adjusted_profile["family_friendly"] = 7

\* the cars a ranking call has collected after it looked at the first
\* position - 1 cars of the catalog, when nothing else runs
MatchesAlone(request, lifestyle_profile) ==
    LET preferences == parse_conversation_preferences(request.conversation_context)
    IN  ScoreCars(SubSeq(cars, 1, request.position - 1), dimension_importance,
                  preferences.filters,
                  AdjustProfile(lifestyle_profile, preferences.lifestyle_boosts),
                  request.budget)

\* C20: ranking calls of different sessions, interleaved in any order at
\* the granularity of the per-car scoring steps, each collect and return
\* exactly what they collect and return when run alone
C20_SameAsAlone ==
    \A s \in 1..Len(conversation_sessions) :
        /\ InFlight(s) =>
               requests[s].matches =
                   MatchesAlone(requests[s], conversation_sessions[s].lifestyle_profile)
        /\ Done(s) =>
               requests[s].matched_cars =
                   find_matches(cars, dimension_importance,
                                conversation_sessions[s].lifestyle_profile,
                                requests[s].budget, requests[s].conversation_context, 4)

\* two sessions, both rankings in the middle of the catalog, with
\* different preferences, and each has collected a car
C20_BothMidScan ==
    /\ Len(conversation_sessions) = 2
    /\ InFlight(1) /\ InFlight(2)
    /\ requests[1].position = 2 /\ requests[2].position = 3
    /\ requests[1].conversation_preferences # requests[2].conversation_preferences
    /\ requests[1].matches # <<>> /\ requests[2].matches # <<>>

(***************************************************************************)
(* The scorers on degenerate inputs                                        *)
(***************************************************************************)
\* the vector v, weighted, is zero on every dimension the profile and the
\* car share (so also when they share none)
ZeroMagnitude(v) ==
    \A d \in Overlap : v[d] * get(dimension_importance, d, 100) = 0

\* C21: the similarity is 0 whenever the car's or the profile's weighted
\* vector over the overlapping dimensions has zero magnitude, including
\* when no dimension overlaps; a non-zero result needs both to be non-zero
C21_ZeroMagnitudeIsZero ==
    ret # None =>
        /\ (ZeroMagnitude(ret.car_scores) \/ ZeroMagnitude(ret.user_profile))
               => ret.result = 0
        /\ ret.result \in 0..(100 * Point)

\* the coupe's three scores met a profile that has none of its dimensions
C21_NoOverlap ==
    /\ ret # None
    /\ Overlap = {}
    /\ DOMAIN ret.car_scores # {} /\ DOMAIN ret.user_profile # {}
    /\ \E d \in DOMAIN ret.car_scores : ret.car_scores[d] # 0
    /\ \E d \in DOMAIN ret.user_profile : ret.user_profile[d] # 0
    /\ ret.result = 0

(***************************************************************************)
(* SpecFeature: _calculate_feature_score on its own, on every car of the   *)
(* pool and on profiles with zero, missing and extreme values.             *)
(***************************************************************************)
\* profiles whose five axis weights are all zero, all but one zero, or
\* partly defaulted because the profile lacks the dimension
NoWeightProfile ==
    [d \in {"eco_conscious", "budget_conscious", "commuter", "performance",
            "family_friendly", "safety_focused", "tech_enthusiast"} |-> 0]

PerformanceOnlyProfile == [NoWeightProfile EXCEPT !.performance = 10]

CommuterOnlyProfile == [NoWeightProfile EXCEPT !.commuter = 1]

FeatureProfiles ==
    ProfileVectors
    \cup {PartialProfile, NoWeightProfile, PerformanceOnlyProfile, CommuterOnlyProfile,
          [d \in DOMAIN FamilyEcoProfile |-> 10], [d \in DOMAIN FamilyEcoProfile |-> 1],
          [luxury |-> 0], [performance |-> 0, luxury |-> 0]}

InitFeature ==
    /\ cars = CarPool
    /\ dimension_importance = DimensionImportance
    /\ ret = None
    /\ first = None
    /\ between = FALSE
    /\ conversation_sessions = <<>>
    /\ requests = <<>>

CalculateFeatureScore ==
    /\ \E i \in 1..Len(cars), user_profile \in FeatureProfiles :
           ret' = [op |-> "calculate_feature_score", car |-> cars[i],
                   user_profile |-> user_profile,
                   result |-> calculate_feature_score(cars[i], user_profile)]
    /\ UNCHANGED <<cars, dimension_importance, conversation_sessions, requests, first, between>>

SpecFeature == InitFeature /\ [][CalculateFeatureScore]_vars

\* the value of a profile dimension, 5 when the profile lacks it
Pref(profile, d) == IF d \in DOMAIN profile THEN profile[d] ELSE 5

\* the five axis weights times 30: the fuel axis averages three dimensions,
\* the other axes take one dimension each, every dimension divided by 10
AxisWeights(profile) ==
    << Pref(profile, "eco_conscious") + Pref(profile, "budget_conscious")
           + Pref(profile, "commuter"),
       3 * Pref(profile, "performance"),
       3 * Pref(profile, "family_friendly"),
       3 * Pref(profile, "safety_focused"),
       3 * Pref(profile, "tech_enthusiast") >>

\* x capped at 100 points
Capped(x) == IF x > 100 * Point THEN 100 * Point ELSE x

\* the five axis scores, each capped at 100: mpg / 50, horsepower / 400,
\* 10 per seat plus 2 per unit of cargo, safety features / 10, technology
\* features / 8
AxisScores(car) ==
    << Capped((car.specifications.mpg_combined * 100 * Point) \div 50),
       Capped((car.specifications.horsepower * 100 * Point) \div 400),
       Capped((car.specifications.seating_capacity * 10
               + car.specifications.cargo_space * 2) * Point),
       Capped((Len(car.features.safety) * 100 * Point) \div 10),
       Capped((Len(car.features.technology) * 100 * Point) \div 8) >>

Sum5(s) == s[1] + s[2] + s[3] + s[4] + s[5]

FeatureScored == ret # None /\ ret.op = "calculate_feature_score"

\* C22: the feature score is the neutral 50 when the five axis weights sum
\* to 0, and otherwise the weight-normalised average of the five capped
\* axis scores, which lies in 0..100 for non-negative weights
C22_NeutralOrAverage ==
    FeatureScored =>
        LET w == AxisWeights(ret.user_profile)
            a == AxisScores(ret.car)
        IN  /\ \A k \in 1..5 : w[k] >= 0 /\ a[k] \in 0..(100 * Point)
            /\ IF Sum5(w) = 0 THEN ret.result = 50 * Point
               ELSE /\ ret.result = Sum5([k \in 1..5 |-> a[k] * w[k]]) \div Sum5(w)
                    /\ ret.result \in 0..(100 * Point)

\* a profile whose five weights are all zero scored a car whose axes are
\* not all 50: the score is 50
C22_NoWeightAtAll ==
    /\ FeatureScored
    /\ Sum5(AxisWeights(ret.user_profile)) = 0
    /\ \A k \in 1..5 : AxisScores(ret.car)[k] # 50 * Point
    /\ ret.result = 50 * Point

(***************************************************************************)
(* PersonalityAnalyzer.analyze                                             *)
(***************************************************************************)
\* the ten dimensions analyze initialises to 0
LifestyleDimensions ==
    {"family_friendly", "adventure", "eco_conscious", "luxury", "performance",
     "budget_conscious", "city_driving", "commuter", "tech_enthusiast", "safety_focused"}

\* an answer as analyze sees it: the key is absent, or its value is a string,
\* a list of strings, or a non-empty value of another type
NoAnswer == [kind |-> "absent", values |-> <<>>]

StrAnswer(v) == [kind |-> "str", values |-> <<v>>]

ListAnswer(vs) == [kind |-> "list", values |-> vs]

OtherAnswer == [kind |-> "other", values |-> <<>>]

\* the options the loop of analyze goes through for one question: none when
\* the answer is missing, empty, or neither a string nor a list
user_answers(answer) ==
    IF answer.kind = "str" /\ answer.values # <<"">> THEN answer.values
    ELSE IF answer.kind = "list" THEN answer.values
    ELSE <<>>

\* the first option of the question whose value is user_answer, or None
selected_option(question, user_answer) ==
    LET hits == {k \in 1..Len(question.options) : question.options[k].value = user_answer}
    IN  IF hits = {} THEN None ELSE <<question.options[Min(hits)]>>

\* a weight of 1.0, in units that 1, 2, 3 and 4 answers divide evenly
WeightUnit == 3 * 4

\* what the answers to one question add to a dimension: to its points when
\* counting is FALSE, to its count when counting is TRUE
Contribution(question, answer, dimension, counting) ==
    LET chosen == user_answers(answer)
        weight == IF Len(chosen) > 0 THEN WeightUnit \div Len(chosen) ELSE WeightUnit
    IN  SumOver(1..Len(chosen),
            [i \in 1..Len(chosen) |->
                LET option == selected_option(question, chosen[i])
                IN  IF option = None \/ dimension \notin DOMAIN option[1].scores THEN 0
                    ELSE IF counting THEN weight
                    ELSE option[1].scores[dimension] * weight])

\* Python's round(num / den): to the nearest integer, a tie to the even one
RoundHalfEven(num, den) ==
    LET q == num \div den
        r == num % den
    IN  IF 2 * r < den THEN q
        ELSE IF 2 * r > den THEN q + 1
        ELSE IF q % 2 = 0 THEN q ELSE q + 1

\* an analyze that forgets to clamp the average into 1..10
AnalyzeUnclamped(questions, answers) ==
    [dimension \in LifestyleDimensions |->
        LET points == SumOver(1..Len(questions),
                          [k \in 1..Len(questions) |->
                              Contribution(questions[k], get(answers, questions[k].id, NoAnswer),
                                           dimension, FALSE)])
            count == SumOver(1..Len(questions),
                          [k \in 1..Len(questions) |->
                              Contribution(questions[k], get(answers, questions[k].id, NoAnswer),
                                           dimension, TRUE)])
        IN  IF count > 0 THEN RoundHalfEven(points, count) ELSE 5]

analyze(questions, answers) ==
    [dimension \in LifestyleDimensions |->
        LET points == SumOver(1..Len(questions),
                          [k \in 1..Len(questions) |->
                              Contribution(questions[k], get(answers, questions[k].id, NoAnswer),
                                           dimension, FALSE)])
            count == SumOver(1..Len(questions),
                          [k \in 1..Len(questions) |->
                              Contribution(questions[k], get(answers, questions[k].id, NoAnswer),
                                           dimension, TRUE)])
        IN  IF count > 0 THEN Max({1, Min({10, RoundHalfEven(points, count)})}) ELSE 5]

\* a questions file: two questions; options give points beyond 1..10 and to
\* a dimension analyze does not know
Questions ==
    << [id |-> "q1",
        options |-> << [value |-> "a", scores |-> [family_friendly |-> 9, safety_focused |-> 8]],
                       [value |-> "b", scores |-> [performance |-> 10, luxury |-> 12, adventure |-> 0]],
                       [value |-> "c", scores |-> [eco_conscious |-> 4, towing |-> 7]] >>],
       [id |-> "q2",
        options |-> << [value |-> "a", scores |-> [family_friendly |-> 4, city_driving |-> 7]],
                       [value |-> "b", scores |-> [eco_conscious |-> 9, commuter |-> 8]] >>] >>

\* the questions analyze may hold: the file, or nothing when it failed to load
QuestionTables == {Questions, <<>>}

\* the most options one answer selects
MaxAnswers == 2

OptionValues == {"a", "b", "c", "zz"}

RECURSIVE OptionLists(_)
OptionLists(n) ==
    IF n = 0 THEN {<<>>}
    ELSE OptionLists(n - 1)
         \cup {Append(l, v) : l \in {m \in OptionLists(n - 1) : Len(m) = n - 1},
                              v \in OptionValues}

AnswerValues ==
    {NoAnswer, OtherAnswer, StrAnswer(""), StrAnswer("a"), StrAnswer("zz")}
    \cup {ListAnswer(l) : l \in OptionLists(MaxAnswers)}

InitAnalyze ==
    /\ cars = CarPool
    /\ dimension_importance = DimensionImportance
    /\ ret = None
    /\ first = None
    /\ between = FALSE
    /\ conversation_sessions = <<>>
    /\ requests = <<>>

Analyze ==
    /\ ret = None
    /\ \E questions \in QuestionTables, a1 \in AnswerValues, a2 \in AnswerValues,
          a9 \in {NoAnswer, StrAnswer("a")} :
           LET answers == [q1 |-> a1, q2 |-> a2, q9 |-> a9]
           IN  ret' = [op |-> "analyze", questions |-> questions, answers |-> answers,
                       result |-> analyze(questions, answers)]
    /\ UNCHANGED <<cars, dimension_importance, conversation_sessions, requests, first, between>>

NextAnalyze == Analyze \/ Return

SpecAnalyze == InitAnalyze /\ [][NextAnalyze]_vars

Analyzed == ret # None /\ ret.op = "analyze"

\* some option the answers select, among the options of the questions the
\* analyzer holds, gives points to dimension d
Contributed(d) ==
    \E k \in 1..Len(ret.questions) :
        LET answer == ret.answers[ret.questions[k].id]
        IN  /\ answer.kind \in {"str", "list"}
            /\ \E i \in 1..Len(answer.values), o \in 1..Len(ret.questions[k].options) :
                   /\ ret.questions[k].options[o].value = answer.values[i]
                   /\ d \in DOMAIN ret.questions[k].options[o].scores

\* C23: for every answers mapping (empty, unknown question ids or option
\* values, a single string or a list) analyze returns a profile of exactly
\* the ten fixed dimensions, each an integer in 1..10; a dimension no
\* selected option contributed to is 5
C23_TenDimensionsInRange ==
    Analyzed =>
        /\ DOMAIN ret.result = LifestyleDimensions
        /\ Cardinality(LifestyleDimensions) = 10
        /\ \A d \in LifestyleDimensions :
               /\ ret.result[d] \in 1..10
               /\ ~Contributed(d) => ret.result[d] = 5

\* an unknown question id, one list naming an unknown option and option b,
\* whose points are 10, 12 and 0: luxury is clamped to 10, adventure to 1,
\* and the dimensions nothing contributed to are 5
C23_ClampedAndDefaulted ==
    /\ Analyzed
    /\ ret.questions = Questions
    /\ ret.answers["q9"] = StrAnswer("a")
    /\ ret.answers["q1"] = ListAnswer(<<"zz", "b">>)
    /\ ret.answers["q2"] = NoAnswer
    /\ ret.result["luxury"] = 10
    /\ ret.result["adventure"] = 1
    /\ ret.result["family_friendly"] = 5

(***************************************************************************)
(* SpecChat: the /api/chat handler as one step per request.  A request     *)
(* names a session, carries a message and a budget of any JSON type, and   *)
(* gets the reply the language-model service produced; its response is     *)
(* in ret until it is delivered (Return).                                  *)
(***************************************************************************)
\* the session_id of a request: absent (or falsy), a hashable value that is
\* the key of session `key` or of none, or a JSON array or object
MissingId == [kind |-> "missing", key |-> 0]

KeyId(key) == [kind |-> "key", key |-> key]

UnhashableId == [kind |-> "unhashable", key |-> 0]

\* the message of a request: text, absent, or a non-empty JSON array
TextMessage(content) == [ctype |-> "str", content |-> content]

NoMessage == [ctype |-> "absent", content |-> <<>>]

ListMessage == [ctype |-> "other", content |-> <<>>]

\* the budget of a request: absent, a number, or a JSON string
NumberBudget(budget) == [text |-> FALSE, value |-> budget]

TextBudget == [text |-> TRUE, value |-> None]

\* user turns appended, over all sessions
MaxTurns == 2

RequestMessages ==
    {TextMessage(ThanksMessage), TextMessage(HybridSuvMessage), NoMessage, ListMessage}

RequestBudgets == {NumberBudget(<<35000>>), TextBudget}

\* what the service answered, after the handler's clean-up
Replies == {AssistantReply}

InitChat ==
    /\ cars = CarPool
    /\ dimension_importance = DimensionImportance
    /\ ret = None
    /\ first = None
    /\ between = FALSE
    /\ conversation_sessions = <<>>
    /\ requests = <<>>

\* "not session_id" is true
Falsy(session_id) == session_id.kind = "missing"

\* "session_id not in conversation_sessions" raises for an unhashable value
MembershipRaises(session_id) == session_id.kind = "unhashable"

IsSessionKey(session_id, sessions) ==
    session_id.kind = "key" /\ session_id.key \in 1..Len(sessions)

\* a handler that creates the session it does not find
StoreWithNewSession(sessions) ==
    Append(sessions, [lifestyle_profile |-> BalancedProfile,
                      conversation_history |-> <<>>, recommended_cars |-> <<>>])

\* the store when the handler returns "Invalid session"
store_after_invalid(sessions) == sessions

\* user_message[:50] raises for a value that cannot be sliced
SliceRaises(user_message) == user_message.ctype = "absent"

\* {"role": "user", "content": user_message}
UserTurn(user_message) ==
    [isdict |-> TRUE, role |-> "user", ctype |-> user_message.ctype,
     content |-> user_message.content]

\* a handler that ranks before it appends the user's message
HistoryBeforeAppend(conversation_history, user_message) == conversation_history

\* a handler that ranks on the current message alone
HistoryLastTurn(conversation_history, user_message) == <<UserTurn(user_message)>>

\* session['conversation_history'] as find_matches receives it
history_at_ranking(conversation_history, user_message) ==
    Append(conversation_history, UserTurn(user_message))

\* a handler that keeps the current exchange only
HistoryLastExchange(conversation_history, ai_response) ==
    <<conversation_history[Len(conversation_history)], Turn("assistant", ai_response)>>

\* session['conversation_history'] after the reply is appended
history_after_reply(conversation_history, ai_response) ==
    Append(conversation_history, Turn("assistant", ai_response))

\* _calculate_budget_affinity compares a budget that is text with 0 and
\* raises, at the first car that passes the filters
BudgetRaises(catalog, filters, budget) ==
    budget.text /\ \E k \in 1..Len(catalog) : meets_conversation_filters(catalog[k], filters)

\* a handler that asks for five cars
ChatFindMatchesTopFive(catalog, importance, lifestyle_profile, budget, conversation_context) ==
    find_matches(catalog, importance, lifestyle_profile, budget, conversation_context, 5)

\* car_matcher.find_matches(..., top_n=4)
chat_find_matches(catalog, importance, lifestyle_profile, budget, conversation_context) ==
    find_matches(catalog, importance, lifestyle_profile, budget, conversation_context, 4)

Response(session_id, status, error, recommended_cars) ==
    [op |-> "chat", session_id |-> session_id, status |-> status, error |-> error,
     recommended_cars |-> recommended_cars]

\* the whole handler
ChatRequest(session_id, user_message, budget, ai_response) ==
    IF Falsy(session_id)
    THEN /\ ret' = Response(session_id, 400, "Invalid session", <<>>)
         /\ conversation_sessions' = store_after_invalid(conversation_sessions)
         /\ UNCHANGED requests
    ELSE IF MembershipRaises(session_id)
    THEN /\ ret' = Response(session_id, 500, "Backend error", <<>>)
         /\ UNCHANGED <<conversation_sessions, requests>>
    ELSE IF ~IsSessionKey(session_id, conversation_sessions)
    THEN /\ ret' = Response(session_id, 400, "Invalid session", <<>>)
         /\ conversation_sessions' = store_after_invalid(conversation_sessions)
         /\ UNCHANGED requests
    ELSE IF SliceRaises(user_message)
    THEN /\ ret' = Response(session_id, 500, "Backend error", <<>>)
         /\ UNCHANGED <<conversation_sessions, requests>>
    ELSE LET s == session_id.key
             session == conversation_sessions[s]
             conversation_context ==
                 history_at_ranking(session.conversation_history, user_message)
             conversation_preferences == parse_conversation_preferences(conversation_context)
             raised == BudgetRaises(cars, conversation_preferences.filters, budget)
             matched_cars ==
                 IF raised THEN <<>>
                 ELSE chat_find_matches(cars, dimension_importance, session.lifestyle_profile,
                                        budget.value, conversation_context)
         IN  /\ ChatsBegun(conversation_sessions) < MaxTurns
             /\ requests' =
                    [requests EXCEPT ![s] =
                        [message |-> user_message,
                         conversation_context |-> conversation_context,
                         conversation_preferences |-> conversation_preferences,
                         raised |-> raised]]
             /\ IF raised
                THEN /\ conversation_sessions' =
                            [conversation_sessions EXCEPT ![s] =
                                [session EXCEPT
                                    !.conversation_history =
                                        Append(@, UserTurn(user_message))]]
                     /\ ret' = Response(session_id, 500, "Backend error", <<>>)
                ELSE /\ conversation_sessions' =
                            [conversation_sessions EXCEPT ![s] =
                                [session EXCEPT
                                    !.conversation_history =
                                        history_after_reply(
                                            Append(@, UserTurn(user_message)), ai_response),
                                    !.recommended_cars = matched_cars]]
                     /\ ret' = Response(session_id, 200, "", matched_cars)

\* the requests that differ in what the handler does with them: the message
\* and the budget of a request that names no session are never looked at
ChatRequests ==
    /\ ret = None
    /\ \E session_id \in {MissingId, UnhashableId}
                         \cup {KeyId(k) : k \in 1..(Len(conversation_sessions) + 1)} :
        \E user_message \in IF IsSessionKey(session_id, conversation_sessions)
                            THEN RequestMessages ELSE {NoMessage} :
        \E budget \in IF IsSessionKey(session_id, conversation_sessions)
                          /\ ~SliceRaises(user_message)
                       THEN RequestBudgets ELSE {TextBudget},
           ai_response \in Replies :
           ChatRequest(session_id, user_message, budget, ai_response)
    /\ UNCHANGED <<cars, dimension_importance, first, between>>

NextChat == AnalyzePersonality \/ ChatRequests \/ Return

SpecChat == InitChat /\ [][NextChat]_vars

ChatAnswered == ret # None /\ ret.op = "chat"

\* the cars of the catalog that pass the filters of the request's ranking
Qualifying(s) ==
    {k \in 1..Len(cars) :
        meets_conversation_filters(cars[k], requests[s].conversation_preferences.filters)}

IsPrefix(s, t) == Len(s) <= Len(t) /\ SubSeq(t, 1, Len(s)) = s

History(s) == conversation_sessions[s].conversation_history

\* C25: a session's conversation_history is append-only: each request leaves
\* the history it found as a prefix of the history it leaves (no turn is
\* removed, reordered or rewritten), and ranking does not modify it: the
\* history find_matches received is still a prefix of the session's history
C25_AppendOnly ==
    /\ [][\A s \in 1..Len(conversation_sessions) :
              IsPrefix(conversation_sessions[s].conversation_history,
                       conversation_sessions'[s].conversation_history)]_vars
    /\ [](\A s \in 1..Len(conversation_sessions) :
              requests[s] # None => IsPrefix(requests[s].conversation_context, History(s)))

\* a session after two answered requests: the second ranking received the
\* first exchange and the second message, and the history holds all four
C25_TwoExchangesKept ==
    /\ Len(conversation_sessions) >= 1
    /\ requests[1] # None
    /\ Len(History(1)) = 4
    /\ requests[1].conversation_context = SubSeq(History(1), 1, 3)
    /\ History(1)[1] = Turn("user", HybridSuvMessage)
    /\ History(1)[2] = Turn("assistant", AssistantReply)

UserTurnsOf(conversation_context) == SelectSeq(conversation_context, IsUserTurn)

\* what the extraction would give were every turn a user turn
PreferencesOfEveryTurn(conversation_context) ==
    parse_conversation_preferences(
        [i \in 1..Len(conversation_context) |->
            [conversation_context[i] EXCEPT !.role = "user"]])

\* C27: within one /api/chat request the user's message is appended to the
\* session history before find_matches runs, and the assistant reply only
\* after ranking: the history ranking receives is the history the request
\* found plus the current message, the filters and boosts of the ranking are
\* those extracted from its user turns alone, and the reply follows it in
\* the session's history
C27_RankedOnUserTurns ==
    /\ [][\A s \in 1..Len(conversation_sessions) :
              requests'[s] # requests[s] =>
                  requests'[s].conversation_context =
                      Append(History(s), UserTurn(requests'[s].message))]_vars
    /\ [](\A s \in 1..Len(conversation_sessions) :
              requests[s] # None =>
                  LET ctx == requests[s].conversation_context
                  IN  /\ requests[s].conversation_preferences =
                             parse_conversation_preferences(UserTurnsOf(ctx))
                      /\ IF requests[s].raised THEN History(s) = ctx
                         ELSE /\ Len(History(s)) = Len(ctx) + 1
                              /\ SubSeq(History(s), 1, Len(ctx)) = ctx
                              /\ History(s)[Len(ctx) + 1].role = "assistant"
                              /\ (ChatAnswered /\ ret.status = 200 /\ ret.session_id = KeyId(s)) =>
                                     ret.recommended_cars =
                                         find_matches(cars, dimension_importance,
                                                      conversation_sessions[s].lifestyle_profile,
                                                      <<35000>>, UserTurnsOf(ctx), 4))

\* the second request of a session: ranking received the first message, a
\* reply that speaks of an electric truck, and the second message; its
\* preferences are those of the two messages, not those the reply would give
C27_ReplyNotCounted ==
    /\ Len(conversation_sessions) >= 1
    /\ requests[1] # None
    /\ ~requests[1].raised
    /\ requests[1].conversation_context =
           <<Turn("user", HybridSuvMessage), Turn("assistant", AssistantReply),
             Turn("user", ThanksMessage)>>
    /\ requests[1].conversation_preferences =
           parse_conversation_preferences(
               <<Turn("user", HybridSuvMessage), Turn("user", ThanksMessage)>>)
    /\ requests[1].conversation_preferences #
           PreferencesOfEveryTurn(requests[1].conversation_context)
    /\ Len(History(1)) = 4

FilterKeys(request) == DOMAIN request.conversation_preferences.filters

C28_KeysNeverWithdrawn ==
    [][\A s \in 1..Len(conversation_sessions) :
          (requests[s] # None /\ requests'[s] # None) =>
              FilterKeys(requests[s]) \subseteq FilterKeys(requests'[s])]_vars

\* C28: within a session the set of active filter keys does not shrink
\* over successive ranking calls as long as every user message of the
\* session is text: a key a user turn triggered is present in the filters of
\* every later ranking call, whose conversation may change the filter's
\* value but not withdraw it.  (A message that is truthy and not text makes
\* the extraction fail and leaves every later ranking without filters.)
C28_KeysKeptWhileText ==
    [][\A s \in 1..Len(conversation_sessions) :
          (requests[s] # None /\ requests'[s] # None
              /\ ~LowerRaises(requests'[s].conversation_context)) =>
              FilterKeys(requests[s]) \subseteq FilterKeys(requests'[s])]_vars

\* the second ranking of a session whose first message asked for a hybrid
\* SUV with good mpg and whose second message names no preference: the
\* three filters are still active
C28_FiltersStillActive ==
    /\ Len(conversation_sessions) >= 1
    /\ requests[1] # None
    /\ requests[1].conversation_context =
           <<Turn("user", HybridSuvMessage), Turn("assistant", AssistantReply),
             Turn("user", ThanksMessage)>>
    /\ FilterKeys(requests[1]) = {"body_type", "fuel_preference", "min_mpg"}
    /\ parse_conversation_preferences(<<Turn("user", ThanksMessage)>>).filters = <<>>


\* a response to a request that named no session of the store
AnsweredUnknown ==
    /\ ret = None /\ ret' # None /\ ret'.op = "chat"
    /\ ~IsSessionKey(ret'.session_id, conversation_sessions)

C30_HistoryAlternates ==
    \A s \in 1..Len(conversation_sessions) :
        /\ Len(History(s)) % 2 = 0
        /\ \A i \in 1..Len(History(s)) :
               History(s)[i].role = IF i % 2 = 1 THEN "user" ELSE "assistant"

(***************************************************************************)
(* SpecReasons: _generate_match_reasons applied to a catalog car and an    *)
(* adjusted profile.                                                       *)
(***************************************************************************)
\* the ideal van at a premium price: every reason there is applies to it
PremiumVan == [IdealVan EXCEPT !.id = "premium-van", !.basic_info.msrp = 55000]

Uniform(v) == [d \in DOMAIN FamilyEcoProfile |-> v]

ReasonProfiles ==
    LET bases == Profiles \cup {PartialProfile, Uniform(7)}
    IN  bases \cup {Uniform(1), Uniform(6), Uniform(10)}
        \cup {[base EXCEPT ![d] = 10] : base \in bases, d \in {"luxury", "safety_focused"}}

InitReasons ==
    /\ cars = Append(CarPool, PremiumVan)
    /\ dimension_importance = DimensionImportance
    /\ ret = None
    /\ first = None
    /\ between = FALSE
    /\ conversation_sessions = <<>>
    /\ requests = <<>>

GenerateMatchReasons ==
    /\ \E i \in 1..Len(cars), user_profile \in ReasonProfiles :
           ret' = [op |-> "generate_match_reasons", car |-> cars[i],
                   user_profile |-> user_profile,
                   result |-> generate_match_reasons(cars[i], user_profile)]
    /\ UNCHANGED <<cars, dimension_importance, conversation_sessions, requests, first, between>>

SpecReasons == InitReasons /\ [][GenerateMatchReasons]_vars

ReasonsGenerated == ret # None /\ ret.op = "generate_match_reasons"

\* the place of a dimension among the priorities: the number of dimensions
\* with a higher value, or with the same value and an earlier key
Rank(user_profile, d) ==
    LET pos(e) == CHOOSE i \in 1..Len(ProfileKeys) : ProfileKeys[i] = e
    IN  Cardinality({e \in DOMAIN user_profile :
                        \/ user_profile[e] > user_profile[d]
                        \/ user_profile[e] = user_profile[d] /\ pos(e) < pos(d)})

\* the dimensions that earn a "Strong ... match" reason
StrongDimensions(car, user_profile) ==
    {d \in DOMAIN user_profile :
        /\ Rank(user_profile, d) < 3
        /\ user_profile[d] >= 7
        /\ get(car.lifestyle_scores, d, 5) >= 7}

PriceReasons(car) ==
    IF car.basic_info.msrp < 30000 THEN {"Great value"}
    ELSE IF car.basic_info.msrp > 50000 THEN {"Premium features"} ELSE {}

\* the spec-threshold reasons in their order, and the ones the car earns
SpecReasonOrder == <<"Excellent fuel economy", "High performance", "Advanced safety tech">>

SpecReasonsEarned(car) ==
    SelectSeq(SpecReasonOrder,
              LAMBDA r : \/ r = "Excellent fuel economy" /\ car.specifications.mpg_combined > 35
                         \/ r = "High performance" /\ car.specifications.horsepower > 300
                         \/ r = "Advanced safety tech" /\ Len(car.features.safety) > 5)

\* 1 for a strong-match reason, 2 for a price-tier reason, 3 to 5 for the
\* spec-threshold reasons
Tier(reason) ==
    IF \E d \in DOMAIN StrongReason : StrongReason[d] = reason THEN 1
    ELSE IF reason \in {"Great value", "Premium features"} THEN 2
    ELSE 2 + (CHOOSE i \in 1..3 : SpecReasonOrder[i] = reason)

Reasons(seq) == {seq[i] : i \in 1..Len(seq)}

\* C26: _generate_match_reasons returns at most 4 reasons in the fixed
\* order: strong-match reasons (exactly those of the dimensions among the
\* profile's top 3 with profile value >= 7 and car value >= 7, by priority),
\* then at most one price-tier reason (Great value below 30000, Premium
\* features above 50000), then spec-threshold reasons (mpg > 35, horsepower >
\* 300, more than 5 safety features); when more than 4 apply, only trailing
\* spec-threshold reasons are dropped
C26_AtMostFourInOrder ==
    ReasonsGenerated =>
        LET r == ret.result
            car == ret.car
            user_profile == ret.user_profile
            strong == StrongDimensions(car, user_profile)
            earned == SpecReasonsEarned(car)
            kept == SelectSeq(r, LAMBDA x : Tier(x) > 2)
        IN  /\ Len(r) <= 4
            /\ \A i \in 1..Len(r), j \in 1..Len(r) :
                   i < j => \/ Tier(r[i]) < Tier(r[j])
                            \/ /\ Tier(r[i]) = 1 /\ Tier(r[j]) = 1
                               /\ \E d \in strong, e \in strong :
                                      /\ r[i] = StrongReason[d] /\ r[j] = StrongReason[e]
                                      /\ Rank(user_profile, d) < Rank(user_profile, e)
            /\ {x \in Reasons(r) : Tier(x) = 1} = {StrongReason[d] : d \in strong}
            /\ {x \in Reasons(r) : Tier(x) = 2} = PriceReasons(car)
            /\ IsPrefix(kept, earned)
            /\ kept # earned => Len(r) = 4

\* the premium van and a profile of tens: three strong matches and the
\* price tier fill the four places, and all three spec reasons are dropped
C26_SevenApplyFourKept ==
    /\ ReasonsGenerated
    /\ ret.car = PremiumVan
    /\ ret.user_profile = Uniform(10)
    /\ Len(SpecReasonsEarned(ret.car)) = 3
    /\ ret.result = <<"Strong Family Friendly match", "Strong Adventure match",
                      "Strong Eco Conscious match", "Premium features">>

====
